---- MODULE Spec2Model ----
(***************************************************************************)
(* A model of the crawl-and-ingest engine of doj_disclosures: the URL      *)
(* frontier kept in the `urls` table (core/db.py), the page crawler        *)
(* (core/crawler.py), the robots policy (core/robots.py), the retry loop   *)
(* of the downloader (core/downloader.py) and the worker that drives them  *)
(* (gui/worker.py).                                                        *)
(*                                                                         *)
(* A URL is a record [host, path, query]; path and query are sequences of  *)
(* tokens, so that the string tests of the code (endswith, startswith,     *)
(* substring, LIKE '%.pdf') are tests on tokens: "/" is a token, a file    *)
(* extension such as ".pdf" is a token, "?page=" is a token.  The text of  *)
(* a URL is the host followed by the path and the query.                   *)
(***************************************************************************)
EXTENDS Integers, Sequences, FiniteSets, TLC

VARIABLES
    urls,      \* the rows of table `urls` (db.py SCHEMA_SQL), a set of records
    batch,     \* the list get_pending_urls returned last, not yet consumed
    lastOp,    \* the frontier call that ran last, with its arguments
    cfg,       \* CrawlSettings of the worker
    crawler,   \* Crawler._seed_urls, _seed_path_prefixes, _robots
    tasks,     \* the handle() / process_page() coroutines, one record each
    clock,     \* datetime.now()
    stop,      \* the stop event
    phase,     \* where CrawlWorker._run_async is
    pause,     \* the pause event: TRUE when it is set, which is when the gate is open
    disk,      \* the files under the downloader's output_dir: path |-> bytes
    jar,       \* the names of the cookies in the session's cookie jar
    dl,        \* a call of Downloader.download: its arguments, locals and what it has done
    kv,        \* table `kv`: the URL penalties and the phrase blacklist
    fb,        \* the call of apply_feedback that ran last
    matcher,   \* the KeywordMatcher a run builds, and the hits of its last match()
    documents, \* the rows of table `documents`, in the order of their ids, and the last add_document
    search,    \* the call of HybridSearcher.search that ran last
    engine,    \* the call of BooleanQueryEngine.evaluate that ran last
    throttle,  \* Downloader._host_throttle and the monotonic clock it reads
    control,   \* the calls of pause(), resume() and stop() and the callbacks they scheduled
    relevance  \* the call of compute_relevance that ran last

dbVars == <<urls, batch, lastOp>>
libVars == <<matcher, documents, search, engine, throttle, control, relevance>>
sideVars == <<pause, disk, jar, dl, kv, fb, matcher, documents, search, engine, throttle, control, relevance>>
runVars == <<cfg, crawler, tasks, clock, stop, phase, pause, disk, jar, dl, kv, fb,
             matcher, documents, search, engine, throttle, control, relevance>>
mainVars == <<urls, batch, lastOp, cfg, crawler, tasks, clock, stop, phase, pause, disk, jar, dl, kv, fb, control,
              relevance>>
vars == <<urls, batch, lastOp, cfg, crawler, tasks, clock, stop, phase, pause, disk, jar, dl, kv, fb,
          matcher, documents, search, engine, throttle, control, relevance>>

NULL == "NULL"

-----------------------------------------------------------------------------
(* URLs *)

Www == "www.justice.gov"
Bare == "justice.gov"
Elsewhere == "other.org"

NoUrl == [host |-> "", path |-> <<>>, query |-> <<>>]

\* the listing page the user starts from, and its pager link
UStart == [host |-> Www, path |-> <<"/", "epstein">>, query |-> <<>>]
UPager == [host |-> Www, path |-> <<"/", "epstein">>, query |-> <<"?page=", "1">>]
\* the listing again, as a user may paste it with a trailing slash
UStartSlash == [host |-> Www, path |-> <<"/", "epstein", "/">>, query |-> <<>>]
\* a page under the listing, not a pager link
UAbout == [host |-> Www, path |-> <<"/", "epstein", "/", "about">>, query |-> <<>>]
\* a pager link of another section, whose path merely begins like the seed's
UOldPager == [host |-> Www, path |-> <<"/", "epstein", "-old">>, query |-> <<"?page=", "2">>]
\* documents, hosted outside the listing's directory
UDoc == [host |-> Bare, path |-> <<"/", "files", "/", "a", ".PDF">>, query |-> <<>>]
UDocQ == [host |-> Www, path |-> <<"/", "files", "/", "a", ".pdf">>, query |-> <<"?dl=", "1">>]
UWord == [host |-> Www, path |-> <<"/", "files", "/", "b", ".doc">>, query |-> <<>>]
\* another document of the same file name, and one of another name
UWordCopy == [host |-> Www, path |-> <<"/", "epstein", "/", "b", ".doc">>, query |-> <<>>]
UMemo == [host |-> Www, path |-> <<"/", "files", "/", "memo", ".doc">>, query |-> <<>>]
\* a document on another site, and one under a path robots.txt disallows
UOffsite == [host |-> Elsewhere, path |-> <<"/", "c", ".pdf">>, query |-> <<>>]
UPrivate == [host |-> Www, path |-> <<"/", "private", "/", "d", ".pdf">>, query |-> <<>>]
\* a dataset listing, as pasted by the user and as rewritten to page=0
UDataset3 == [host |-> Www, path |-> <<"/", "epstein", "/", "doj-disclosures", "/", "data-set-", "1", "-files">>,
              query |-> <<"?page=", "3">>]
UDataset0 == [host |-> Www, path |-> <<"/", "epstein", "/", "doj-disclosures", "/", "data-set-", "1", "-files">>,
              query |-> <<"?page=", "0">>]

UrlText(u) == <<u.host>> \o u.path \o u.query

\* a host as a page may spell it
MixedWww == "WWW.Justice.gov"

\* str.lower(), on the tokens that have capitals
Lower(tok) ==
    CASE tok = ".PDF" -> ".pdf"
      [] tok = MixedWww -> Www
      [] OTHER -> tok

LowerSeq(s) == [i \in 1..Len(s) |-> Lower(s[i])]

EndsWith(s, tok) == Len(s) > 0 /\ s[Len(s)] = tok

StartsWith(s, p) == Len(p) <= Len(s) /\ SubSeq(s, 1, Len(p)) = p

Contains(s, tok) == \E i \in 1..Len(s) : s[i] = tok

DOWNLOAD_EXTS == {".pdf", ".doc", ".docx", ".txt", ".html", ".htm"}

\* crawler.looks_downloadable: the extension of the URL's path
looks_downloadable(u) == \E ext \in DOWNLOAD_EXTS : EndsWith(LowerSeq(u.path), ext)

\* the CASE of get_pending_urls: lower(url) LIKE '%.pdf' OR ... on the whole URL text
SqlIsDocument(u) == \E ext \in {".pdf", ".doc", ".docx", ".txt", ".html", ".htm"} : EndsWith(LowerSeq(UrlText(u)), ext)

\* urls.url LIKE '%.pdf' in upsert_urls (LIKE ignores ASCII case)
SqlLikePdf(u) == EndsWith(LowerSeq(UrlText(u)), ".pdf")

-----------------------------------------------------------------------------
(* The frontier: table urls and its operations (db.py) *)

\* INSERT INTO urls(url,status,discovered_at): every other column is NULL
NewRow(u, st, t) ==
    [url |-> u, status |-> st, discovered_at |-> t, http_status |-> NULL, error |-> NULL,
     content_type |-> NULL, title |-> NULL, final_url |-> NULL, local_path |-> NULL,
     sha256 |-> NULL, etag |-> NULL, last_modified |-> NULL]

Coalesce(v) == IF v = NULL THEN "" ELSE v

\* a CASE that would keep every done row, whatever it has stored
PreserveDoneAlways(r, st) == IF r.status = "done" THEN "done" ELSE st

\* the CASE of the preserve_done statement
PreserveDoneStatus(r, st) ==
    IF r.status = "done" /\ (~SqlLikePdf(r.url) \/ (Coalesce(r.local_path) # "" /\ Coalesce(r.sha256) # ""))
    THEN "done"
    ELSE st

\* an INSERT without the ON CONFLICT clause and without the primary key
InsertRow(tbl, u, st, t, pd) == tbl \cup {NewRow(u, st, t)}

\* an upsert that applies the preserve_done CASE whatever preserve_done is
UpsertRowPreserving(tbl, u, st, t, pd) ==
    IF \E r \in tbl : r.url = u
    THEN {IF r.url # u THEN r ELSE [r EXCEPT !.status = PreserveDoneStatus(r, st)] : r \in tbl}
    ELSE tbl \cup {NewRow(u, st, t)}

\* one row of executemany: INSERT ... ON CONFLICT(url) DO UPDATE
UpsertRow(tbl, u, st, t, pd) ==
    IF \E r \in tbl : r.url = u
    THEN {IF r.url # u THEN r
          ELSE IF pd THEN [r EXCEPT !.status = PreserveDoneStatus(r, st)]
          ELSE [r EXCEPT !.status = st, !.discovered_at = t] : r \in tbl}
    ELSE tbl \cup {NewRow(u, st, t)}

RECURSIVE UpsertUrls(_, _, _, _, _)
UpsertUrls(tbl, us, st, t, pd) ==
    IF us = <<>> THEN tbl
    ELSE UpsertUrls(UpsertRow(tbl, Head(us), st, t, pd), Tail(us), st, t, pd)

\* the keyword arguments of update_url_attempt, the optional ones defaulting to None
Attempt(st, hs, err) ==
    [status |-> st, http_status |-> hs, error |-> err, content_type |-> NULL, title |-> NULL,
     final_url |-> NULL, local_path |-> NULL, sha256 |-> NULL, etag |-> NULL, last_modified |-> NULL]

\* UPDATE urls SET status=?, ..., last_modified=? WHERE url=?
\* (last_attempt_at is written and never read by the program; it is left out)
UpdateUrlAttempt(tbl, u, a) ==
    {IF r.url # u THEN r
     ELSE [r EXCEPT !.status = a.status, !.http_status = a.http_status, !.error = a.error,
                    !.content_type = a.content_type, !.title = a.title, !.final_url = a.final_url,
                    !.local_path = a.local_path, !.sha256 = a.sha256, !.etag = a.etag,
                    !.last_modified = a.last_modified] : r \in tbl}

\* an UPDATE that leaves the rows in status processing
ClearQueuedOnly(tbl) ==
    {IF r.status \in {"queued", "retry"} THEN [r EXCEPT !.status = "abandoned"] ELSE r : r \in tbl}

ClearPendingUrls(tbl) ==
    {IF r.status \in {"queued", "retry", "processing"} THEN [r EXCEPT !.status = "abandoned"] ELSE r : r \in tbl}

\* a query that leaves out the rows whose URL a handler holds
PendingUnclaimed(tbl) ==
    {r \in tbl : r.status \in {"queued", "retry"} /\ \A t \in DOMAIN tasks : tasks[t].pc = "idle" \/ tasks[t].url # r.url}

PendingRows(tbl) == {r \in tbl : r.status \in {"queued", "retry"}}

OrderClass(r) == IF SqlIsDocument(r.url) THEN 1 ELSE 0

\* ORDER BY discovered_at ASC alone, without the CASE
OrderByDiscoveredAt(a, b) == a.discovered_at <= b.discovered_at

\* ORDER BY CASE ... END ASC, discovered_at ASC
OrderLeq(a, b) ==
    \/ OrderClass(a) < OrderClass(b)
    \/ OrderClass(a) = OrderClass(b) /\ a.discovered_at <= b.discovered_at

\* ORDER BY ... LIMIT n: the first n rows of every order the ORDER BY allows; rows with
\* equal keys come in any order
RECURSIVE SortedRows(_, _)
SortedRows(S, n) ==
    IF S = {} \/ n <= 0 THEN {<<>>}
    ELSE UNION {{<<r>> \o rest : rest \in SortedRows(S \ {r}, n - 1)} :
                    r \in {x \in S : \A y \in S : OrderLeq(x, y)}}

\* the lists get_pending_urls(limit) can return: (url, content_type) pairs
GetPendingUrls(tbl, limit) ==
    {[i \in 1..Len(s) |-> [url |-> s[i].url, content_type |-> s[i].content_type]] :
        s \in SortedRows(PendingRows(tbl), limit)}

-----------------------------------------------------------------------------
(* URL helpers (utils.py) and robots.txt (robots.py) *)

\* what urlparse makes of an <a href>; no scheme and no host is a relative reference
Href(scheme, host, path, query, fragment) ==
    [scheme |-> scheme, host |-> host, path |-> path, query |-> query, fragment |-> fragment]

\* href="" or no href at all
EmptyHref == Href("", "", <<>>, <<>>, "")

\* the netloc "[::1" of href="http://[::1": urlsplit raises ValueError("Invalid IPv6 URL")
BadNetloc == "[::1"

\* urljoin(base, href), for absolute URLs, absolute paths, "?query" and "#fragment"
UrlJoin(base, h) ==
    IF h.scheme # "" THEN [scheme |-> h.scheme, host |-> h.host, path |-> h.path, query |-> h.query]
    ELSE IF h.path # <<>> THEN [scheme |-> "https", host |-> base.host, path |-> h.path, query |-> h.query]
    ELSE IF h.query # <<>> THEN [scheme |-> "https", host |-> base.host, path |-> base.path, query |-> h.query]
    ELSE [scheme |-> "https", host |-> base.host, path |-> base.path, query |-> base.query]

\* re.sub(r"//+", "/", path)
RECURSIVE CollapseSlashes(_)
CollapseSlashes(path) ==
    IF Len(path) < 2 THEN path
    ELSE IF path[1] = "/" /\ path[2] = "/" THEN CollapseSlashes(Tail(path))
    ELSE <<path[1]>> \o CollapseSlashes(Tail(path))

NormalizeRaises(h) == h.host = BadNetloc

\* utils.normalize_url(href, base): the scheme and the URL it returns
normalize_url(h, base) ==
    LET j == UrlJoin(base, h)
    IN  [scheme |-> j.scheme, url |-> [host |-> Lower(j.host), path |-> CollapseSlashes(j.path), query |-> j.query]]

\* canon() of is_same_site: lower case, a leading "www." dropped
Canon(host) == IF Lower(host) = Www THEN Bare ELSE Lower(host)

is_same_site(u, b) == Canon(u.host) = Canon(b.host)

\* the Disallow lines of the site's robots.txt
RobotsTxt == {<<"/", "private">>}

\* robots.fetch_robots: the rules parsed from the body, no rule when the fetch failed
fetch_robots(outcome) ==
    [loaded |-> TRUE, outcome |-> outcome, disallow |-> IF outcome = "ok" THEN RobotsTxt ELSE {}]

\* RobotsPolicy.can_fetch: no Disallow rule is a prefix of the path
can_fetch(robots, u) == ~\E d \in robots.disallow : StartsWith(u.path, d)

-----------------------------------------------------------------------------
(* The functions of Crawler that read no table (crawler.py) *)

\* path.rstrip("/")
RECURSIVE RStripSlash(_)
RStripSlash(path) ==
    IF path # <<>> /\ path[Len(path)] = "/" THEN RStripSlash(SubSeq(path, 1, Len(path) - 1)) ELSE path

OrRoot(path) == IF path = <<>> THEN <<"/">> ELSE path

\* the two entries initialize() appends to _seed_path_prefixes for one seed
SeedPrefixes(s) ==
    LET exact == OrRoot(RStripSlash(OrRoot(s.path)))
        prefix == IF EndsWith(exact, "/") THEN exact ELSE exact \o <<"/">>
    IN  <<exact, prefix>>

RECURSIVE SeedPathPrefixes(_)
SeedPathPrefixes(seeds) ==
    IF seeds = <<>> THEN <<>> ELSE SeedPrefixes(Head(seeds)) \o SeedPathPrefixes(Tail(seeds))

\* `needle in haystack`, on tokens
ContainsSeq(s, sub) == \E i \in 0..(Len(s) - Len(sub)) : SubSeq(s, i + 1, i + Len(sub)) = sub

\* int(page_vals[0]), or -1 where int() raises
PageInt(tok) ==
    CASE tok = "0" -> 0
      [] tok = "1" -> 1
      [] tok = "2" -> 2
      [] tok = "3" -> 3
      [] OTHER -> -1

_normalize_dataset_seed(u) ==
    IF ~ContainsSeq(u.path, <<"/", "epstein", "/", "doj-disclosures", "/", "data-set-">>) THEN u
    ELSE IF ~Contains(u.path, "-files") THEN u
    ELSE IF ~(Len(u.query) = 2 /\ u.query[1] = "?page=") THEN u
    ELSE IF PageInt(u.query[2]) <= 0 THEN u
    ELSE [u EXCEPT !.query = <<"?page=", "0">>]

_is_allowed_site(c, s, u) ==
    \/ s.allow_offsite
    \/ LET bases == IF c.seed_urls # <<>> THEN c.seed_urls ELSE <<s.start_url>>
       IN  \E i \in 1..Len(bases) : is_same_site(u, bases[i])

\* a scope test that takes every prefix entry for a directory
PageInScopeByPrefix(c, u) ==
    \/ c.seed_path_prefixes = <<>>
    \/ \E i \in 1..Len(c.seed_path_prefixes) : StartsWith(OrRoot(u.path), c.seed_path_prefixes[i])

_page_in_scope(c, u) ==
    \/ c.seed_path_prefixes = <<>>
    \/ LET path == OrRoot(u.path)
       IN  \E i \in 1..Len(c.seed_path_prefixes) :
              LET pref == c.seed_path_prefixes[i]
              IN  \/ pref = <<"/">>
                  \/ path = pref
                  \/ EndsWith(pref, "/") /\ StartsWith(path, pref)

_looks_like_pagination(u) ==
    \E tok \in {"?page=", "&page=", "?p=", "&p=", "pager"} : Contains(LowerSeq(UrlText(u)), tok)

\* a crawler that never asks the robots policy
AllowedAlways(c, u) == TRUE

_allowed(c, u) == ~c.robots.loaded \/ can_fetch(c.robots, u)

\* the candidates of the loop over soup.find_all("a") that pass its four `continue`s
Links(c, s, html, base) ==
    {normalize_url(html[i], base).url : i \in
        {k \in 1..Len(html) :
            /\ html[k] # EmptyHref
            /\ normalize_url(html[k], base).scheme \notin {"mailto", "javascript"}
            /\ _is_allowed_site(c, s, normalize_url(html[k], base).url)
            /\ _allowed(c, normalize_url(html[k], base).url)}}

\* the loop raises when normalize_url does
LinksRaise(html) == \E k \in 1..Len(html) : html[k] # EmptyHref /\ NormalizeRaises(html[k])

DocLinks(links) == {u \in links : looks_downloadable(u)}

PageLinksAll(c, links) == {u \in links : ~looks_downloadable(u) /\ _page_in_scope(c, u)}

PageLinks(c, s, links) ==
    IF s.follow_discovered_pages THEN PageLinksAll(c, links)
    ELSE {u \in PageLinksAll(c, links) : _looks_like_pagination(u)}

-----------------------------------------------------------------------------
(* Bounds of the model *)

\* the frontier's direct callers pass discovered_at 1..MaxStamp
MaxStamp == 2

\* datetime.now() reads 1..MaxClock; it is read later by each call of the crawler's
\* caller and by each run of the worker than by the one before
MaxClock == 3

\* get_pending_urls is called with limit 0..MaxLimit by the frontier's direct callers
MaxLimit == 2

\* max_retries is set to 0..MaxRetries
MaxRetries == 1

\* max_concurrency is set to 1 or to MaxConcurrency
MaxConcurrency == 2

\* pending = await self._db.get_pending_urls(limit=400)
IterLimit == 400

-----------------------------------------------------------------------------
(* The state before anything has run *)

Tasks == {1, 2}

\* a coroutine of handle() or process_page(): where it is (pc), its arguments and locals,
\* the statuses it has written (writes) and the fetches it has made (fetches)
\* (cache is what get_url_cache_headers returned to it)
\* no file is open
Closed == [dir |-> <<>>, name |-> <<>>]

IdleTask ==
    [pc |-> "idle", url |-> NoUrl, now |-> 1, attempts |-> 0, fetches |-> 0, error |-> NULL,
     html |-> <<>>, links |-> {}, writes |-> <<>>, cache |-> [etag |-> NULL, last_modified |-> NULL],
     file |-> Closed, body |-> <<>>, digest |-> <<>>]

\* the frontier call of the step just taken: who made it (by) and with what
NoOp == [op |-> "none", by |-> "none", urls |-> {}, url |-> NoUrl, status |-> NULL, preserve_done |-> FALSE,
         discovered_at |-> 0, limit |-> 0]

Op(name, by, U, u, st, pd, t, lim) ==
    [op |-> name, by |-> by, urls |-> U, url |-> u, status |-> st, preserve_done |-> pd,
     discovered_at |-> t, limit |-> lim]

DefaultCfg ==
    [start_url |-> UStart, follow_discovered_pages |-> FALSE, allow_offsite |-> FALSE, max_retries |-> 0,
     max_concurrency |-> 1, storage_layout |-> "flat", age_verify_opt_in |-> FALSE, query |-> <<>>]

\* Crawler.__init__
NoCrawler ==
    [seed_urls |-> <<>>, seed_path_prefixes |-> <<>>,
     robots |-> [loaded |-> FALSE, outcome |-> "none", disallow |-> {}]]

\* Path.exists() is membership in DOMAIN disk
NoFiles == <<>>

\* no call of Downloader.download has been made; before is the disk as the call found
\* it, after_stop whether the call follows one of the same URL that stop cancelled
IdleDl ==
    [pc |-> "idle", url |-> NoUrl, title |-> <<>>, conditional |-> FALSE, attempts |-> 0, sleeps |-> 0,
     sent |-> <<>>, resp |-> [status |-> 0, content_type |-> "", body |-> <<>>, broken |-> FALSE],
     last_exc |-> NULL, result |-> [url |-> NoUrl, local_path |-> [dir |-> <<>>, name |-> <<>>],
                                   content_type |-> "", sha256 |-> <<>>],
     before |-> NoFiles, after_stop |-> FALSE]

\* table `kv` holds at most one row per key: <<>> is no row, <<v>> the row with JSON value v
EmptyKv == [url_penalties |-> <<>>, phrase_blacklist |-> <<>>]

\* no apply_feedback call yet
NoFeedback == [doc_id |-> 0, label |-> NULL, review |-> NULL, fault |-> "none", ran |-> {}, raised |-> FALSE]

\* no matcher built yet
NoMatcher == [built |-> FALSE, blacklist |-> {}, keywords |-> <<>>, query |-> <<>>, text |-> <<>>, hits |-> {}]

\* table `documents` is empty and add_document has not been called
NoDocuments == [rows |-> <<>>, last |-> [url |-> NoUrl, sha256 |-> NULL, id |-> 0]]

\* no search yet
NoSearch == [pc |-> "idle", provider |-> FALSE, limit |-> 0, stored |-> <<>>, sims |-> <<>>, fts |-> <<>>, rows |-> <<>>]

\* no query evaluated yet
NoEngine == [pc |-> "idle", query |-> <<>>, text |-> <<>>, rpn |-> <<>>, hit |-> FALSE]

\* the hosts of the URLs handed to the downloader, and the tasks downloading at once
ThrottleHosts == {Www}

ThrottleWorkers == 1..2

\* _HostThrottleState(): what setdefault gives for a host not seen yet. The penalty is
\* counted in hundredths, times in milliseconds of the monotonic clock.
_HostThrottleState == [next_allowed_at |-> 0, penalty |-> 100]

\* a task that is not inside download()
IdleCaller == [pc |-> "idle", host |-> "", wake_at |-> 0, granted |-> FALSE]

\* no slot granted yet
NoGrant == [at |-> 0 - 1, penalty |-> 0]

\* no response noted yet
NoNote == [http_status |-> 0]

\* Downloader.__init__: self._host_throttle = {}, read with setdefault everywhere, so a
\* host without an entry is a host with the default entry. requests_per_second is in
\* tenths; calls counts the requests begun; grant is the last slot granted for a host.
NoThrottle ==
    [requests_per_second |-> 10, now |-> 0, calls |-> 0,
     hosts |-> [h \in ThrottleHosts |-> _HostThrottleState],
     grant |-> [h \in ThrottleHosts |-> NoGrant],
     workers |-> [w \in ThrottleWorkers |-> IdleCaller],
     last |-> NoNote]

\* compute_relevance has not been called
NoRelevance ==
    [called |-> FALSE, topic_similarity |-> 0, hv_sim |-> 0, ir_sim |-> 0, url_penalty |-> 0,
     entity_density |-> 0, relevance_score |-> 0]

\* no call of pause(), resume() or stop() yet, no callback scheduled;
\* self._desired_paused = False
NoControl == [queue |-> <<>>, desired_paused |-> FALSE, last |-> "none", stop_called |-> FALSE, calls |-> 0]

\* no file, no cookie, no download under way, an empty kv table, the pause event set,
\* no document stored, nothing matched or searched, no host throttled
InitEffects ==
    /\ pause = TRUE
    /\ disk = NoFiles
    /\ jar = {}
    /\ dl = IdleDl
    /\ kv = EmptyKv
    /\ fb = NoFeedback

InitSide ==
    /\ InitEffects
    /\ matcher = NoMatcher
    /\ documents = NoDocuments
    /\ search = NoSearch
    /\ engine = NoEngine
    /\ throttle = NoThrottle
    /\ control = NoControl
    /\ relevance = NoRelevance

InitRun ==
    /\ cfg = DefaultCfg
    /\ crawler = NoCrawler
    /\ tasks = [t \in Tasks |-> IdleTask]
    /\ clock = 1
    /\ stop = FALSE
    /\ phase = "idle"
    /\ InitSide

InitDb ==
    /\ urls = {}
    /\ batch = <<>>
    /\ lastOp = NoOp

RECURSIVE SeqOf(_)
SeqOf(S) == IF S = {} THEN <<>> ELSE LET x == CHOOSE y \in S : TRUE IN <<x>> \o SeqOf(S \ {x})

Range(s) == {s[i] : i \in 1..Len(s)}

-----------------------------------------------------------------------------
(* SpecDb: the frontier operations, called directly in any order *)

DbUrls == {UPager, UDoc, UWord}

\* upsert_url gives one URL, upsert_urls a list of them
DbUrlLists == {{u} : u \in DbUrls} \cup {DbUrls}

\* the argument shapes of update_url_attempt: a bare status, or done with cache fields
DbAttempts(u) ==
    {Attempt(st, NULL, NULL) : st \in {"processing", "done", "retry", "error"}}
    \cup (IF u = UDoc
          THEN {[Attempt("done", "200", NULL) EXCEPT !.local_path = lp, !.sha256 = sha] :
                    lp \in {NULL, "path"}, sha \in {NULL, "sha"}} \ {Attempt("done", "200", NULL)}
          ELSE {})

DbUpsertUrls(U, st, t, pd) ==
    /\ urls' = UpsertUrls(urls, SeqOf(U), st, t, pd)
    /\ lastOp' = Op("upsert_urls", "caller", U, NoUrl, st, pd, t, 0)
    /\ batch' = <<>>
    /\ UNCHANGED runVars

DbUpdateUrlAttempt(u, a) ==
    /\ urls' = UpdateUrlAttempt(urls, u, a)
    /\ lastOp' = Op("update_url_attempt", "caller", {u}, u, a.status, FALSE, 0, 0)
    /\ batch' = <<>>
    /\ UNCHANGED runVars

DbClearPendingUrls ==
    /\ urls' = ClearPendingUrls(urls)
    /\ lastOp' = Op("clear_pending_urls", "caller", {}, NoUrl, NULL, FALSE, 0, 0)
    /\ batch' = <<>>
    /\ UNCHANGED runVars

DbGetPendingUrls(limit) ==
    /\ batch' \in GetPendingUrls(urls, limit)
    /\ lastOp' = Op("get_pending_urls", "caller", {}, NoUrl, NULL, FALSE, 0, limit)
    /\ UNCHANGED urls
    /\ UNCHANGED runVars

NextDb ==
    \/ \E U \in DbUrlLists, st \in {"queued", "retry"}, t \in 1..MaxStamp, pd \in BOOLEAN :
          DbUpsertUrls(U, st, t, pd)
    \/ \E u \in DbUrls : \E a \in DbAttempts(u) : DbUpdateUrlAttempt(u, a)
    \/ DbClearPendingUrls
    \/ \E limit \in 0..MaxLimit : DbGetPendingUrls(limit)

InitFrontier == InitDb /\ InitRun

SpecDb == InitFrontier /\ [][NextDb]_vars

-----------------------------------------------------------------------------
(* Claims about the frontier operations, checked under SpecDb *)

HasRow(tbl, u) == \E r \in tbl : r.url = u

RowOf(tbl, u) == CHOOSE r \in tbl : r.url = u

\* the URL, as text, ends in one of the document extensions
EndsInDocumentExtension(u) ==
    LET text == UrlText(u)
    IN  text[Len(text)] \in {".pdf", ".PDF", ".doc", ".docx", ".txt", ".html", ".htm"}

\* C1: get_pending_urls(limit) returns at most `limit` URLs, without repetition, each of
\* a row in status queued or retry; every URL that does not end in a document extension
\* comes before every URL that does; within each of the two groups discovered_at
\* ascends; and a pending row left out by the limit sorts no earlier than any row returned.
C1_PendingBatchOrdered ==
    lastOp.op = "get_pending_urls" =>
        /\ Len(batch) <= lastOp.limit
        /\ \A i \in 1..Len(batch) :
              /\ HasRow(urls, batch[i].url)
              /\ RowOf(urls, batch[i].url).status \in {"queued", "retry"}
        /\ \A i, j \in 1..Len(batch) : i < j =>
              LET a == RowOf(urls, batch[i].url)
                  b == RowOf(urls, batch[j].url)
              IN  /\ a.url # b.url
                  /\ ~(EndsInDocumentExtension(a.url) /\ ~EndsInDocumentExtension(b.url))
                  /\ EndsInDocumentExtension(a.url) = EndsInDocumentExtension(b.url)
                        => a.discovered_at <= b.discovered_at
        /\ \A r \in urls : (r.status \in {"queued", "retry"} /\ ~\E i \in 1..Len(batch) : batch[i].url = r.url) =>
              /\ Len(batch) = lastOp.limit
              /\ \A i \in 1..Len(batch) :
                    LET a == RowOf(urls, batch[i].url)
                    IN  /\ ~(EndsInDocumentExtension(a.url) /\ ~EndsInDocumentExtension(r.url))
                        /\ EndsInDocumentExtension(a.url) = EndsInDocumentExtension(r.url)
                              => a.discovered_at <= r.discovered_at

\* a batch of two in which a page discovered later precedes a document discovered
\* earlier, while a third pending row was cut off by the limit
C1_Witness ==
    /\ lastOp.op = "get_pending_urls"
    /\ lastOp.limit = 2
    /\ Len(batch) = 2
    /\ batch[1].url = UPager
    /\ batch[2].url \in {UDoc, UWord}
    /\ RowOf(urls, batch[2].url).discovered_at < RowOf(urls, UPager).discovered_at
    /\ Cardinality({r \in urls : r.status \in {"queued", "retry"}}) = 3
    /\ \E r \in urls : r.status \in {"queued", "retry"} /\ r.url \notin {batch[1].url, batch[2].url}

\* the row lacks a stored local_path or a stored sha256
LacksCache(r) == r.local_path \in {NULL, ""} \/ r.sha256 \in {NULL, ""}

\* a step of upsert_urls with preserve_done=true
IsPreservingUpsert == lastOp'.op = "upsert_urls" /\ lastOp'.preserve_done

\* C2 as stated: upsert_urls with preserve_done=true leaves a done row as it is, unless
\* the row is a document URL (one with a document extension) without a stored
\* sha256 or local_path, which is re-queued with the given status; a URL not yet
\* present is inserted with the given status.
C2_AsStated ==
    [][IsPreservingUpsert =>
          /\ \A r \in urls : (r.url \in lastOp'.urls /\ r.status = "done") =>
                IF EndsInDocumentExtension(r.url) /\ LacksCache(r)
                THEN [r EXCEPT !.status = lastOp'.status] \in urls'
                ELSE r \in urls'
          /\ \A u \in lastOp'.urls : ~HasRow(urls, u) =>
                HasRow(urls', u) /\ RowOf(urls', u).status = lastOp'.status]_vars

\* the URL, as text, ends in .pdf, in any case of the letters
EndsInPdf(u) == LET text == UrlText(u) IN text[Len(text)] \in {".pdf", ".PDF"}

\* C2, amended: upsert_urls with preserve_done=true leaves a done row as it is, unless
\* the row's URL ends in .pdf and the row has no stored sha256 or no stored local_path,
\* in which case it is re-queued with the given status; a URL not yet present is
\* inserted with the given status; rows of URLs not given are untouched.
C2_PreserveDone ==
    [][IsPreservingUpsert =>
          /\ \A r \in urls : (r.url \in lastOp'.urls /\ r.status = "done") =>
                IF EndsInPdf(r.url) /\ LacksCache(r)
                THEN [r EXCEPT !.status = lastOp'.status] \in urls'
                ELSE r \in urls'
          /\ \A u \in lastOp'.urls : ~HasRow(urls, u) =>
                HasRow(urls', u) /\ RowOf(urls', u).status = lastOp'.status
          /\ \A r \in urls : r.url \notin lastOp'.urls => r \in urls']_vars

\* after a preserving upsert of all three URLs with status retry: the .pdf row that had a
\* sha256 but no local_path is re-queued, the .doc row without either is still done
C2_Witness ==
    /\ lastOp.op = "upsert_urls"
    /\ lastOp.preserve_done
    /\ lastOp.status = "retry"
    /\ lastOp.urls = DbUrls
    /\ \E r \in urls : r.url = UDoc /\ r.status = "retry" /\ r.sha256 = "sha" /\ r.local_path = NULL /\ r.http_status = "200"
    /\ \E r \in urls : r.url = UWord /\ r.status = "done" /\ r.sha256 = NULL
    /\ \E r \in urls : r.url = UPager /\ r.status = "done"

\* C5: a frontier operation never leaves two rows for one URL, never leaves a status
\* outside queued, processing, retry, done, error, abandoned, and never removes the row
\* of a URL.
C5_OneRowPerUrl ==
    [][/\ \A r1, r2 \in urls' : r1.url = r2.url => r1 = r2
       /\ \A r \in urls' : r.status \in {"queued", "processing", "retry", "done", "error", "abandoned"}
       /\ \A r \in urls : \E r2 \in urls' : r2.url = r.url]_vars

\* three rows, one abandoned, one in error, and an upsert that has just met an existing row
C5_Witness ==
    /\ Cardinality(urls) = 3
    /\ \E r \in urls : r.status = "abandoned"
    /\ \E r \in urls : r.status = "error"
    /\ lastOp.op = "upsert_urls"
    /\ \E r \in urls : r.url \in lastOp.urls /\ r.discovered_at # lastOp.discovered_at

-----------------------------------------------------------------------------
(* The pages the site serves *)

HrefDoc == Href("https", Bare, <<"/", "files", "/", "/", "a", ".PDF">>, <<>>, "")
HrefDocQ == Href("", "", <<"/", "files", "/", "a", ".pdf">>, <<"?dl=", "1">>, "")
HrefPager == Href("", "", <<>>, <<"?page=", "1">>, "")
HrefAbout == Href("https", MixedWww, <<"/", "epstein", "/", "about">>, <<>>, "#top")
HrefOldPager == Href("", "", <<"/", "epstein", "-old">>, <<"?page=", "2">>, "")
HrefOffsite == Href("https", Elsewhere, <<"/", "c", ".pdf">>, <<>>, "")
HrefPrivate == Href("", "", <<"/", "private", "/", "d", ".pdf">>, <<>>, "")
HrefMail == Href("mailto", "", <<"someone">>, <<>>, "")
HrefBroken == Href("http", BadNetloc, <<>>, <<>>, "")

\* the anchors of a listing page, in document order
ListingHtml ==
    <<HrefDoc, HrefDocQ, EmptyHref, HrefPager, HrefAbout, HrefOldPager, HrefOffsite, HrefPrivate, HrefMail>>

\* a page with an anchor that urljoin cannot parse
BrokenHtml == <<HrefDoc, HrefPager, HrefBroken>>

Htmls == {ListingHtml, BrokenHtml}

\* str(e) of what _fetch_html raises, or of RuntimeError(f"HTTP {status}")
FetchErrors == {"HTTP 500", "TimeoutError"}

-----------------------------------------------------------------------------
(* Crawler.initialize and Crawler.process_page, step by step (crawler.py) *)

DbWrite(by, u, a) ==
    /\ urls' = UpdateUrlAttempt(urls, u, a)
    /\ lastOp' = Op("update_url_attempt", by, {u}, u, a.status, FALSE, 0, 0)

\* upsert_urls returns at once when the list is empty
DbUpsert(by, U, st, t, pd) ==
    IF U = {}
    THEN urls' = urls /\ lastOp' = NoOp
    ELSE urls' = UpsertUrls(urls, SeqOf(U), st, t, pd) /\ lastOp' = Op("upsert_urls", by, U, NoUrl, st, pd, t, 0)

Initialize(seed_urls, outcome) ==
    LET given == SelectSeq(seed_urls, LAMBDA u : u # NoUrl)
        seeds_raw == IF given = <<>> THEN <<cfg.start_url>> ELSE given
        seeds == [i \in 1..Len(seeds_raw) |-> _normalize_dataset_seed(seeds_raw[i])]
    IN  /\ crawler' = [seed_urls |-> seeds, seed_path_prefixes |-> SeedPathPrefixes(seeds),
                       robots |-> fetch_robots(outcome)]
        /\ DbUpsert("initialize", Range(seeds), "queued", clock, FALSE)

\* process_page up to its first write: the two guards, then status processing (its
\* caller in the worker has awaited the pause event just before)
PageBegin(t) ==
    LET me == tasks[t]
    IN  /\ me.pc = "page_call"
        /\ pause
        /\ IF ~_is_allowed_site(crawler, cfg, me.url) \/ ~_allowed(crawler, me.url)
           THEN /\ tasks' = [tasks EXCEPT ![t].pc = "returned"]
                /\ urls' = urls
                /\ lastOp' = NoOp
           ELSE /\ DbWrite("process_page", me.url, Attempt("processing", NULL, NULL))
                /\ tasks' = [tasks EXCEPT ![t].pc = "loop", ![t].now = clock, ![t].attempts = 0,
                                          ![t].writes = <<"processing">>]
        /\ UNCHANGED <<batch, cfg, crawler, clock, stop, phase>>
        /\ UNCHANGED sideVars

\* the except clause: count the attempt, write error after the last one, retry otherwise
PageExcept(t, err, fetched) ==
    LET me == tasks[t]
        n == me.attempts + 1
        st == IF n > cfg.max_retries THEN "error" ELSE "retry"
    IN  /\ DbWrite("process_page", me.url, Attempt(st, NULL, err))
        /\ tasks' = [tasks EXCEPT ![t].pc = IF st = "error" THEN "returned" ELSE "loop",
                                  ![t].attempts = n, ![t].fetches = @ + fetched, ![t].error = err,
                                  ![t].writes = Append(@, st)]
        /\ UNCHANGED <<batch, cfg, crawler, clock, stop, phase>>
        /\ UNCHANGED sideVars

\* _fetch_html answers below 400: status done is written
PageFetchOk(t, html) ==
    LET me == tasks[t]
    IN  /\ me.pc = "loop"
        /\ me.attempts <= cfg.max_retries
        /\ ~stop
        /\ DbWrite("process_page", me.url,
                   [Attempt("done", "200", NULL) EXCEPT !.content_type = "text/html", !.title = "title",
                                                        !.final_url = "as requested"])
        /\ tasks' = [tasks EXCEPT ![t].pc = "extract", ![t].html = html, ![t].fetches = @ + 1,
                                  ![t].writes = Append(@, "done")]
        /\ UNCHANGED <<batch, cfg, crawler, clock, stop, phase>>
        /\ UNCHANGED sideVars

\* _fetch_html raises, or answers 400 or above
PageFetchFail(t, err) ==
    /\ tasks[t].pc = "loop"
    /\ tasks[t].attempts <= cfg.max_retries
    /\ ~stop
    /\ PageExcept(t, err, 1)

\* normalize_url raises in the loop over the anchors, inside the try
PageExtractRaise(t) ==
    /\ tasks[t].pc = "extract"
    /\ LinksRaise(tasks[t].html)
    /\ PageExcept(t, "Invalid IPv6 URL", 0)

\* the anchors are filtered and the document links are upserted, preserve_done=True
PageEnqueueDocs(t) ==
    LET me == tasks[t]
        links == Links(crawler, cfg, me.html, me.url)
    IN  /\ me.pc = "extract"
        /\ ~LinksRaise(me.html)
        /\ DbUpsert("process_page", DocLinks(links), "queued", me.now, TRUE)
        /\ tasks' = [tasks EXCEPT ![t].pc = "pages", ![t].links = links]
        /\ UNCHANGED <<batch, cfg, crawler, clock, stop, phase>>
        /\ UNCHANGED sideVars

\* the page links are upserted, preserve_done=False, and the links returned
PageEnqueuePages(t) ==
    LET me == tasks[t]
    IN  /\ me.pc = "pages"
        /\ DbUpsert("process_page", PageLinks(crawler, cfg, me.links), "queued", me.now, FALSE)
        /\ tasks' = [tasks EXCEPT ![t].pc = "returned"]
        /\ UNCHANGED <<batch, cfg, crawler, clock, stop, phase>>
        /\ UNCHANGED sideVars

\* the while condition fails because the stop event is set
PageStopped(t) ==
    /\ tasks[t].pc = "loop"
    /\ stop
    /\ tasks' = [tasks EXCEPT ![t].pc = "returned"]
    /\ lastOp' = NoOp
    /\ UNCHANGED <<urls, batch, cfg, crawler, clock, stop, phase>>
    /\ UNCHANGED sideVars

-----------------------------------------------------------------------------
(* SpecCrawl: one Crawler used as the tests use it: initialize(), then           *)
(* process_page(url) and get_pending_urls(), one call at a time                 *)

CrawlCfgs ==
    {[DefaultCfg EXCEPT !.follow_discovered_pages = f, !.allow_offsite = o, !.max_retries = m] :
        f \in BOOLEAN, o \in BOOLEAN, m \in 0..MaxRetries}

CrawlSeedLists == {<<>>, <<UStart>>, <<NoUrl, UStartSlash>>}

RobotsOutcomes == {"ok", "error status", "exception"}

CrawlTargets == {UStart, UPager, UOffsite, UPrivate}

InitCrawl ==
    /\ InitDb
    /\ cfg \in CrawlCfgs
    /\ crawler = NoCrawler
    /\ tasks = [t \in Tasks |-> IdleTask]
    /\ clock = 1
    /\ stop = FALSE
    /\ phase = "idle"
    /\ InitSide

CrawlInitialize(seed_urls, outcome) ==
    /\ phase = "idle"
    /\ Initialize(seed_urls, outcome)
    /\ phase' = "running"
    /\ UNCHANGED <<batch, cfg, tasks, clock, stop>>
    /\ UNCHANGED sideVars

\* the caller awaits process_page(u), later than its call before
CrawlProcessPage(u) ==
    /\ phase = "running"
    /\ tasks[1].pc \in {"idle", "returned"}
    /\ clock < MaxClock
    /\ clock' = clock + 1
    /\ tasks' = [tasks EXCEPT ![1] = [IdleTask EXCEPT !.pc = "page_call", !.url = u]]
    /\ lastOp' = NoOp
    /\ batch' = <<>>
    /\ UNCHANGED <<urls, cfg, crawler, stop, phase>>
    /\ UNCHANGED sideVars

\* the caller awaits get_pending_urls
CrawlGetPending ==
    /\ phase = "running"
    /\ tasks[1].pc \in {"idle", "returned"}
    /\ batch' \in GetPendingUrls(urls, MaxLimit)
    /\ lastOp' = Op("get_pending_urls", "caller", {}, NoUrl, NULL, FALSE, 0, MaxLimit)
    /\ UNCHANGED <<urls, cfg, crawler, tasks, clock, stop, phase>>
    /\ UNCHANGED sideVars

NextCrawl ==
    \/ \E seed_urls \in CrawlSeedLists, outcome \in RobotsOutcomes : CrawlInitialize(seed_urls, outcome)
    \/ \E u \in CrawlTargets : CrawlProcessPage(u)
    \/ PageBegin(1)
    \/ \E html \in Htmls : PageFetchOk(1, html)
    \/ \E err \in FetchErrors : PageFetchFail(1, err)
    \/ PageExtractRaise(1)
    \/ PageEnqueueDocs(1)
    \/ PageEnqueuePages(1)
    \/ CrawlGetPending

SpecCrawl == InitCrawl /\ [][NextCrawl]_vars

-----------------------------------------------------------------------------
(* Claims about the page crawler, checked under SpecCrawl *)

\* the URL's path ends in one of the document extensions, in any case of the letters
HasDocumentExtension(u) ==
    u.path # <<>> /\ u.path[Len(u.path)] \in {".pdf", ".PDF", ".doc", ".docx", ".txt", ".html", ".htm"}

\* the URL carries a pager parameter
IsPaginationLink(u) == u.query # <<>> /\ u.query[1] \in {"?page=", "?p="}

\* the seed's path, without the slash it may end in
SeedDir(sd) ==
    IF Len(sd.path) > 1 /\ sd.path[Len(sd.path)] = "/" THEN SubSeq(sd.path, 1, Len(sd.path) - 1) ELSE sd.path

\* the URL's path is a seed's path, or lies in the directory of that name
InSeedScope(u) ==
    \E i \in 1..Len(crawler.seed_urls) :
        LET d == SeedDir(crawler.seed_urls[i])
        IN  \/ u.path = d
            \/ Len(u.path) > Len(d) /\ SubSeq(u.path, 1, Len(d)) = d /\ u.path[Len(d) + 1] = "/"

\* what the step just taken has passed to upsert_urls
Enqueued == IF lastOp'.op = "upsert_urls" THEN lastOp'.urls ELSE {}

\* process_page has returned from a fetch that succeeded and an extraction that did not raise
ReturnedLinks(t) ==
    /\ tasks[t].pc = "returned"
    /\ tasks[t].writes # <<>>
    /\ tasks[t].writes[Len(tasks[t].writes)] = "done"

\* C6 as stated: with follow_discovered_pages=false, once process_page has returned from a
\* successfully fetched page, every discovered document link and every discovered
\* in-scope pagination link has a row, no other discovered page link has one, and in
\* the next pending batch a pagination link of the page comes before a document link
\* of the page.
C6_AsStated ==
    (~cfg.follow_discovered_pages /\ ReturnedLinks(1)) =>
        /\ \A u \in tasks[1].links :
              IF HasDocumentExtension(u) \/ (IsPaginationLink(u) /\ InSeedScope(u))
              THEN HasRow(urls, u)
              ELSE ~HasRow(urls, u) \/ u \in Range(crawler.seed_urls)
        /\ lastOp.op = "get_pending_urls" =>
              \A i, j \in 1..Len(batch) :
                  (/\ batch[i].url \in tasks[1].links
                   /\ batch[j].url \in tasks[1].links
                   /\ HasDocumentExtension(batch[i].url)
                   /\ ~HasDocumentExtension(batch[j].url)) => j < i

SiteOf(host) == IF host \in {Www, MixedWww, Bare} THEN Bare ELSE host

\* off-site crawling is allowed, or the URL is on the site of a seed
OnSite(u) ==
    \/ cfg.allow_offsite
    \/ \E i \in 1..Len(crawler.seed_urls) : SiteOf(u.host) = SiteOf(crawler.seed_urls[i].host)

\* robots.txt was fetched and one of its Disallow lines covers the URL's path
RobotsDisallowed(u) ==
    /\ crawler.robots.outcome = "ok"
    /\ \E d \in RobotsTxt : Len(d) <= Len(u.path) /\ SubSeq(u.path, 1, Len(d)) = d

C9_AsStated ==
    \A t \in Tasks :
        LET w == tasks[t].writes
        IN  /\ tasks[t].fetches <= cfg.max_retries + 1
            /\ w # <<>> => w[1] = "processing"
            /\ \A i \in 1..Len(w) : w[i] = "error" => i = Len(w)
            /\ \A i, j \in 1..Len(w) : (i < j /\ w[i] = "done") => w[j] \notin {"retry", "error"}

-----------------------------------------------------------------------------
(* Spec: CrawlWorker._run_async (gui/worker.py): a run abandons the old queue,  *)
(* seeds the new one, and hands the pending URLs to handle() coroutines, at     *)
(* most max_concurrency of them past the semaphore; stop ends the run           *)

WorkerSeedLists == {<<UStart>>, <<UDataset3>>}

\* what the site serves to the worker: the listing links a document and its pager
WorkerHtml(u) == IF u = UStart THEN <<HrefDoc, HrefPager>> ELSE <<HrefDoc>>

\* str(e) of what Downloader._download_once raises
DownloadErrors == {"HTTP 503"}

WorkerCfgs == {[DefaultCfg EXCEPT !.max_retries = m] : m \in 0..MaxRetries}

Init ==
    /\ InitDb
    /\ cfg \in WorkerCfgs
    /\ crawler = NoCrawler
    /\ tasks = [t \in Tasks |-> IdleTask]
    /\ clock = 1
    /\ stop = FALSE
    /\ phase = "idle"
    /\ InitSide

Active == {t \in Tasks : tasks[t].pc # "idle"}

InsideSem == {t \in Tasks : tasks[t].pc \notin {"idle", "waiting"}}

\* a semaphore that lets every task in
SemaphoreOpen == TRUE

\* async with sem: asyncio.Semaphore(s.max_concurrency) has a place left
SemaphoreFree == Cardinality(InsideSem) < cfg.max_concurrency

\* a run starts, later than the run before: await self._db.clear_pending_urls(), on
\* fresh pause and stop events
RunClear ==
    /\ phase = "idle"
    /\ clock < MaxClock
    /\ clock' = clock + 1
    /\ urls' = ClearPendingUrls(urls)
    /\ lastOp' = Op("clear_pending_urls", "run", {}, NoUrl, NULL, FALSE, 0, 0)
    /\ stop' = FALSE
    /\ pause' = TRUE
    /\ phase' = "cleared"
    /\ UNCHANGED <<batch, cfg, crawler, tasks, disk, jar, dl, kv, fb>>
    /\ UNCHANGED libVars

\* await crawler.initialize(seed_urls=self._seed_urls)
RunInitialize(seed_urls, outcome) ==
    /\ phase = "cleared"
    /\ Initialize(seed_urls, outcome)
    /\ phase' = "running"
    /\ UNCHANGED <<batch, cfg, tasks, clock, stop>>
    /\ UNCHANGED sideVars

\* iter_discovered has yielded its list and, past the pause event, asks for the next one
IterRefill ==
    /\ phase = "running"
    /\ ~stop
    /\ pause
    /\ batch = <<>>
    /\ Cardinality(Active) < cfg.max_concurrency * 2
    /\ batch' \in GetPendingUrls(urls, IterLimit)
    /\ lastOp' = Op("get_pending_urls", "iter_discovered", {}, NoUrl, NULL, FALSE, 0, IterLimit)
    /\ UNCHANGED <<urls, cfg, crawler, tasks, clock, stop, phase>>
    /\ UNCHANGED sideVars

\* the loop takes the next item and, past the pause event, creates its task
Dispatch(t) ==
    /\ phase = "running"
    /\ ~stop
    /\ pause
    /\ batch # <<>>
    /\ Cardinality(Active) < cfg.max_concurrency * 2
    /\ Tasks \ Active # {}
    /\ t = CHOOSE i \in Tasks \ Active : \A j \in Tasks \ Active : i <= j
    /\ tasks' = [tasks EXCEPT ![t] = [IdleTask EXCEPT !.pc = "waiting", !.url = Head(batch).url]]
    /\ batch' = Tail(batch)
    /\ lastOp' = NoOp
    /\ UNCHANGED <<urls, cfg, crawler, clock, stop, phase>>
    /\ UNCHANGED sideVars

\* handle() gets the semaphore: it returns when stopped, else it awaits the pause event
\* and writes status processing
TaskStart(t) ==
    LET me == tasks[t]
    IN  /\ me.pc = "waiting"
        /\ SemaphoreFree
        /\ IF stop
           THEN /\ tasks' = [tasks EXCEPT ![t] = IdleTask]
                /\ urls' = urls
                /\ lastOp' = NoOp
           ELSE /\ pause
                /\ DbWrite("handle", me.url, Attempt("processing", NULL, NULL))
                /\ tasks' = [tasks EXCEPT ![t].pc = IF looks_downloadable(me.url) THEN "headers" ELSE "page_call",
                                          ![t].now = clock, ![t].writes = <<"processing">>]
        /\ UNCHANGED <<batch, cfg, crawler, clock, stop, phase>>
        /\ UNCHANGED sideVars

\* SELECT etag, last_modified FROM urls WHERE url=?, a missing row giving (None, None)
get_url_cache_headers(tbl, u) ==
    IF \E r \in tbl : r.url = u
    THEN LET r == CHOOSE x \in tbl : x.url = u IN [etag |-> r.etag, last_modified |-> r.last_modified]
    ELSE [etag |-> NULL, last_modified |-> NULL]

\* handle() awaits the pause event and reads the cache headers of the row
DocReadHeaders(t) ==
    /\ tasks[t].pc = "headers"
    /\ pause
    /\ tasks' = [tasks EXCEPT ![t].pc = "download", ![t].cache = get_url_cache_headers(urls, tasks[t].url)]
    /\ lastOp' = NoOp
    /\ UNCHANGED <<urls, batch, cfg, crawler, clock, stop, phase>>
    /\ UNCHANGED sideVars

\* cache_headers is not empty: the request carries If-None-Match or If-Modified-Since
IsConditional(cache) == cache.etag # NULL \/ cache.last_modified # NULL

\* str(e) of NotModifiedError
NotModified == "Not modified"

\* downloader.download returns a file; the document is processed and status done written
DocDownloadOk(t) ==
    LET me == tasks[t]
    IN  /\ me.pc = "download"
        /\ me.attempts <= cfg.max_retries
        /\ ~stop
        /\ pause
        /\ DbWrite("handle", me.url,
                   [Attempt("done", "200", NULL) EXCEPT !.content_type = "application/pdf", !.title = "title",
                        !.final_url = "as requested", !.local_path = "path", !.sha256 = "sha",
                        !.etag = "etag", !.last_modified = "date"])
        /\ tasks' = [tasks EXCEPT ![t].pc = "returned", ![t].fetches = @ + 1, ![t].writes = Append(@, "done")]
        /\ UNCHANGED <<batch, cfg, crawler, clock, stop, phase>>
        /\ UNCHANGED sideVars

\* what handle() does with an exception that download() raises: `except Exception`
HandleExcept(t, err, n, fetched) ==
    /\ DbWrite("handle", tasks[t].url, Attempt("retry", NULL, err))
    /\ tasks' = [tasks EXCEPT ![t].pc = "returned", ![t].attempts = n, ![t].fetches = @ + fetched,
                              ![t].error = err, ![t].writes = Append(@, "retry")]

\* what handle() does with the NotModifiedError that download() raises: status done with
\* http_status 304, the other keyword arguments at their defaults
HandleNotModified(t, n, fetched) ==
    /\ DbWrite("handle", tasks[t].url, Attempt("done", "304", NULL))
    /\ tasks' = [tasks EXCEPT ![t].pc = "returned", ![t].attempts = n, ![t].fetches = @ + fetched,
                              ![t].error = NotModified, ![t].writes = Append(@, "done")]

\* the exception download() ends with reaches handle(): NotModifiedError has its own clause
HandleRaised(t, err, n, fetched) ==
    IF err = NotModified THEN HandleNotModified(t, n, fetched) ELSE HandleExcept(t, err, n, fetched)

\* _download_once raises err: the `except Exception` of download() counts the attempt, and
\* download() sleeps and tries again, or raises err after the last attempt
DownloadRaises(t, err) ==
    LET me == tasks[t]
        n == me.attempts + 1
    IN  /\ me.pc = "download"
        /\ me.attempts <= cfg.max_retries
        /\ ~stop
        /\ pause
        /\ IF n > cfg.max_retries
           THEN HandleRaised(t, err, n, 1)
           ELSE /\ tasks' = [tasks EXCEPT ![t].attempts = n, ![t].fetches = @ + 1, ![t].error = err]
                /\ urls' = urls
                /\ lastOp' = NoOp
        /\ UNCHANGED <<batch, cfg, crawler, clock, stop, phase>>
        /\ UNCHANGED sideVars

\* the server answers 400 or above, or the transfer breaks
DocDownloadFail(t, err) ==
    /\ err # NotModified
    /\ DownloadRaises(t, err)

\* the server answers a conditional request with 304: _download_once raises NotModifiedError
DocNotModified(t) ==
    /\ IsConditional(tasks[t].cache)
    /\ DownloadRaises(t, NotModified)

\* download() leaves its loop because the stop event is set, and raises: the last
\* exception, or AssertionError when there was none
DocStopped(t) ==
    LET me == tasks[t]
    IN  /\ me.pc = "download"
        /\ stop
        /\ HandleRaised(t, IF me.error = NULL THEN "" ELSE me.error, me.attempts, 0)
        /\ UNCHANGED <<batch, cfg, crawler, clock, stop, phase>>
        /\ UNCHANGED sideVars

\* handle() returns: the semaphore is released and the task leaves the set
TaskReturn(t) ==
    /\ phase = "running"
    /\ tasks[t].pc = "returned"
    /\ tasks' = [tasks EXCEPT ![t] = IdleTask]
    /\ lastOp' = NoOp
    /\ UNCHANGED <<urls, batch, cfg, crawler, clock, stop, phase>>
    /\ UNCHANGED sideVars

\* CrawlWorker.stop(): the stop event is set, and the pause event too
Stop ==
    /\ phase = "running"
    /\ ~stop
    /\ stop' = TRUE
    /\ pause' = TRUE
    /\ lastOp' = NoOp
    /\ UNCHANGED <<urls, batch, cfg, crawler, tasks, clock, phase, disk, jar, dl, kv, fb>>
    /\ UNCHANGED libVars

\* CrawlWorker.pause(): the pause event is cleared, unless stop has been requested
Pause ==
    /\ phase = "running"
    /\ ~stop
    /\ pause
    /\ pause' = FALSE
    /\ lastOp' = NoOp
    /\ UNCHANGED <<urls, batch, cfg, crawler, tasks, clock, stop, phase, disk, jar, dl, kv, fb>>
    /\ UNCHANGED libVars

\* CrawlWorker.resume(): the pause event is set again
Resume ==
    /\ phase = "running"
    /\ ~stop
    /\ ~pause
    /\ pause' = TRUE
    /\ lastOp' = NoOp
    /\ UNCHANGED <<urls, batch, cfg, crawler, tasks, clock, stop, phase, disk, jar, dl, kv, fb>>
    /\ UNCHANGED libVars

\* the loop of _run_async is at a place where it reads the stop event: not inside
\* `while len(tasks) >= s.max_concurrency * 2: await asyncio.sleep(0.05)`
AtStopCheck == Cardinality(Active) < cfg.max_concurrency * 2

\* the loop has seen the stop event: the tasks left are cancelled and gathered
RunEnd ==
    /\ phase = "running"
    /\ stop
    /\ AtStopCheck
    /\ tasks' = [t \in Tasks |-> IdleTask]
    /\ batch' = <<>>
    /\ phase' = "idle"
    /\ lastOp' = NoOp
    /\ UNCHANGED <<urls, cfg, crawler, clock, stop>>
    /\ UNCHANGED sideVars

Next ==
    \/ RunClear
    \/ \E seed_urls \in WorkerSeedLists, outcome \in {"ok"} : RunInitialize(seed_urls, outcome)
    \/ IterRefill
    \/ \E t \in Tasks : Dispatch(t)
    \/ \E t \in Tasks : TaskStart(t)
    \/ \E t \in Tasks : PageBegin(t)
    \/ \E t \in Tasks : PageFetchOk(t, WorkerHtml(tasks[t].url))
    \/ \E t \in Tasks, err \in {"HTTP 500"} : PageFetchFail(t, err)
    \/ \E t \in Tasks : PageEnqueueDocs(t)
    \/ \E t \in Tasks : PageEnqueuePages(t)
    \/ \E t \in Tasks : PageStopped(t)
    \/ \E t \in Tasks : DocReadHeaders(t)
    \/ \E t \in Tasks : DocDownloadOk(t)
    \/ \E t \in Tasks, err \in DownloadErrors : DocDownloadFail(t, err)
    \/ \E t \in Tasks : DocStopped(t)
    \/ \E t \in Tasks : TaskReturn(t)
    \/ Stop
    \/ RunEnd

Spec == Init /\ [][Next]_vars

-----------------------------------------------------------------------------
(* SpecPool: one run of the worker with max_concurrency handlers past the       *)
(* semaphore at once, the user pausing and resuming it, and the server          *)
(* answering 304 to the conditional requests                                    *)

PoolCfgs == {[DefaultCfg EXCEPT !.max_retries = m, !.max_concurrency = MaxConcurrency] : m \in 0..MaxRetries}

\* the clock leaves time for one run
InitPool ==
    /\ InitDb
    /\ cfg \in PoolCfgs
    /\ crawler = NoCrawler
    /\ tasks = [t \in Tasks |-> IdleTask]
    /\ clock = MaxClock - 1
    /\ stop = FALSE
    /\ phase = "idle"
    /\ InitSide

NextPool ==
    \/ Next
    \/ \E t \in Tasks : DocNotModified(t)
    \/ Pause
    \/ Resume

SpecPool == InitPool /\ [][NextPool]_vars

-----------------------------------------------------------------------------
(* Claims about a run of the worker, checked under Spec *)

\* the URLs of the rows get_pending_urls selects from
PendingUrls(tbl) == {r.url : r \in {x \in tbl : x.status \in {"queued", "retry"}}}

\* C3: upsert_urls with preserve_done=false leaves every given URL with a row in the given
\* status, whatever the status of its row was and whether it had one, and changes no
\* other row; Crawler.initialize upserts its seeds and process_page its page links in
\* this way, so after initialize every seed is pending.
C3_ResetByUpsert ==
    [][/\ (lastOp'.op = "upsert_urls" /\ ~lastOp'.preserve_done) =>
             /\ \A u \in lastOp'.urls : HasRow(urls', u) /\ RowOf(urls', u).status = lastOp'.status
             /\ \A r \in urls : r.url \notin lastOp'.urls => r \in urls'
       /\ (lastOp'.op = "upsert_urls" /\ lastOp'.by = "initialize") => ~lastOp'.preserve_done
       /\ (\E t \in Tasks : tasks[t].pc = "pages" /\ tasks'[t].pc = "returned" /\ lastOp'.op = "upsert_urls") =>
             ~lastOp'.preserve_done
       /\ (phase = "cleared" /\ phase' = "running") =>
             /\ crawler'.seed_urls # <<>>
             /\ \A i \in 1..Len(crawler'.seed_urls) : crawler'.seed_urls[i] \in PendingUrls(urls')]_vars

\* the second run has just been initialized: its seed was crawled in the first run, and
\* its row, still holding the HTTP status of that crawl, is queued again
C3_Witness ==
    /\ phase = "running"
    /\ clock = 3
    /\ lastOp.op = "upsert_urls"
    /\ lastOp.by = "initialize"
    /\ lastOp.urls = {UStart}
    /\ \E r \in urls : r.url = UStart /\ r.status = "queued" /\ r.http_status = "200"

\* C4: clear_pending_urls turns every row in status queued, retry or processing into
\* abandoned and changes nothing else; a run calls it and then initialize, and when
\* initialize has returned the pending rows are exactly the rows of the run's seeds.
C4_RunStartsFromSeeds ==
    [][/\ lastOp'.op = "clear_pending_urls" =>
             /\ \A r \in urls :
                   IF r.status \in {"queued", "retry", "processing"}
                   THEN [r EXCEPT !.status = "abandoned"] \in urls'
                   ELSE r \in urls'
             /\ Cardinality(urls') = Cardinality(urls)
       /\ (phase = "idle" /\ phase' # "idle") => lastOp'.op = "clear_pending_urls"
       /\ (phase = "cleared" /\ phase' # "cleared") =>
             /\ phase' = "running"
             /\ PendingUrls(urls') = Range(crawler'.seed_urls)
             /\ \A r \in urls' : r.status # "processing"]_vars

\* the second run has just been initialized with the dataset listing as its seed: the
\* pager and the document the first run left queued or in progress are abandoned, and
\* only the listing, rewritten to page=0, is pending
C4_Witness ==
    /\ phase = "running"
    /\ clock = 3
    /\ lastOp.by = "initialize"
    /\ PendingUrls(urls) = {UDataset0}
    /\ \E r \in urls : r.url = UStart /\ r.status = "done"
    /\ \E r \in urls : r.url = UPager /\ r.status = "abandoned"
    /\ \E r \in urls : r.url = UDoc /\ r.status = "abandoned"

\* C10 as stated: when the download of a document has failed on every attempt, at most
\* max_retries+1 attempts were made and the URL's row is written with status error and
\* the message of the failure, so that get_pending_urls no longer selects it.
C10_AsStated ==
    [][\A t \in Tasks :
          (tasks[t].pc = "download" /\ tasks'[t].pc = "returned" /\ tasks'[t].attempts > cfg.max_retries) =>
              /\ tasks'[t].fetches <= cfg.max_retries + 1
              /\ \E r \in urls' : r.url = tasks[t].url /\ r.status = "error" /\ r.error = tasks'[t].error
              /\ tasks[t].url \notin PendingUrls(urls')]_vars

-----------------------------------------------------------------------------
(* Claims about concurrent handlers, stop and pause, checked under SpecPool *)

\* the fields of a row that a completed download has filled
CachedFields(r) == <<r.local_path, r.sha256, r.content_type, r.title, r.final_url, r.etag, r.last_modified>>

\* the step in which handle() handles the NotModifiedError of task t
Handles304(t) ==
    /\ tasks[t].pc = "download"
    /\ tasks'[t].pc = "returned"
    /\ tasks'[t].error = NotModified

\* C11 as stated: when a conditional GET for a document has returned 304 and handle() has
\* handled the not-modified signal, the row's local_path, sha256, content_type, title,
\* final_url, etag and last_modified are what they were before.
C11_AsStated ==
    [][\A t \in Tasks :
          (Handles304(t) /\ HasRow(urls, tasks[t].url)) =>
              CachedFields(RowOf(urls', tasks[t].url)) = CachedFields(RowOf(urls, tasks[t].url))]_vars

\* the step in which the server answers 304 to a request of task t
Gets304(t) ==
    /\ tasks[t].pc = "download"
    /\ tasks'[t].fetches = tasks[t].fetches + 1
    /\ tasks'[t].error = NotModified

\* C12 as stated: a 304 response ends download() at once, whatever max_retries is: no
\* further request of the URL is made by that call, and handle() records the URL as done,
\* not as retry or error.
C12_AsStated ==
    [][\A t \in Tasks :
          Gets304(t) =>
              /\ tasks'[t].pc = "returned"
              /\ \E r \in urls' : r.url = tasks[t].url /\ r.status = "done"]_vars

\* C16: nothing in the claim of a URL keeps a second handler from it: get_pending_urls
\* returns every queued or retry row to iter_discovered, the rows whose URL a handler
\* already holds included; the worker creates a handler for the URL at the head of the
\* list whoever else holds it; and a handler that starts writes processing whatever the
\* status of the row is.
C16_NoClaimGuard ==
    [][/\ (lastOp'.op = "get_pending_urls" /\ lastOp'.by = "iter_discovered") =>
             {batch'[i].url : i \in 1..Len(batch')} = PendingUrls(urls)
       /\ \A t \in Tasks :
             (tasks[t].pc = "idle" /\ tasks'[t].pc = "waiting") => tasks'[t].url = Head(batch).url
       /\ \A t \in Tasks :
             (tasks[t].pc = "waiting" /\ tasks'[t].pc \notin {"waiting", "idle"}) =>
                 /\ lastOp'.op = "update_url_attempt"
                 /\ lastOp'.url = tasks[t].url
                 /\ lastOp'.status = "processing"]_vars

\* two handlers hold the same document, both have written processing and both have
\* requested it, and neither has returned
C16_Witness ==
    /\ tasks[1].url = tasks[2].url
    /\ looks_downloadable(tasks[1].url)
    /\ \A t \in Tasks :
          /\ tasks[t].pc = "download"
          /\ tasks[t].writes = <<"processing">>
          /\ tasks[t].fetches >= 1

\* C17 as stated: from the moment stop is set no handler writes to the frontier and no
\* handler sends a request.
C17_AsStated ==
    [][stop => /\ urls' = urls
               /\ \A t \in Tasks : tasks'[t].fetches <= tasks[t].fetches]_vars

\* C18 as stated: while the pause event is cleared and stop has not been requested, no
\* row is newly written processing and no handler sends a request.
C18_AsStated ==
    [][(~pause /\ ~stop) =>
          /\ ~(lastOp'.op = "update_url_attempt" /\ lastOp'.status = "processing")
          /\ \A t \in Tasks : tasks'[t].fetches <= tasks[t].fetches]_vars

-----------------------------------------------------------------------------
(* Downloader._download_once and Downloader.download (core/downloader.py).      *)
(* Bytes are sequences of tokens; a file path is a record [dir, name] under     *)
(* output_dir, the name a sequence of tokens whose last one may be a suffix.    *)

\* what the site holds at a URL: a PDF at the URLs ending in .pdf, a Word file elsewhere
PdfBytes == <<"%PDF-", "1.7", "%%EOF">>
DocBytes == <<"hello ", "world">>
CopyBytes == <<"other ", "words">>

\* the age-verification interstitial of justice.gov, and another HTML page
GateHtml == <<"<!doctype html>", "age-verify">>
ErrorHtml == <<"<html>", "moved">>

expect_pdf_by_url(u) == EndsWith(LowerSeq(u.path), ".pdf")

Resource(u) == IF expect_pdf_by_url(u) THEN PdfBytes ELSE IF u = UWordCopy THEN CopyBytes ELSE DocBytes

ResourceType(u) == IF expect_pdf_by_url(u) THEN "application/pdf" ELSE "application/msword"

\* Path(url).name for a URL without a query: the path after its last "/"
RECURSIVE UrlName(_)
UrlName(path) ==
    IF path = <<>> \/ path[Len(path)] = "/" THEN <<>>
    ELSE UrlName(SubSeq(path, 1, Len(path) - 1)) \o <<path[Len(path)]>>

\* safe_filename(title or Path(url).name or "document"), on names it leaves as they are
BaseName(u, title) ==
    IF title # <<>> THEN title
    ELSE IF UrlName(u.path) # <<>> THEN UrlName(u.path)
    ELSE <<"document">>

Suffixes == {".pdf", ".PDF", ".doc", ".docx", ".txt", ".html", ".htm", ".part"}

\* Path.suffix and Path.stem of a name
Suffix(name) == IF Len(name) > 1 /\ name[Len(name)] \in Suffixes THEN name[Len(name)] ELSE ""

Stem(name) == IF Suffix(name) = "" THEN name ELSE SubSeq(name, 1, Len(name) - 1)

WithSuffix(name, suffix) == IF suffix = "" THEN Stem(name) ELSE Stem(name) \o <<suffix>>

PartPath(base) == [dir |-> <<".parts">>, name |-> base \o <<".part">>]

FinalPath(base) == [dir |-> <<>>, name |-> base]

\* output_dir / f"{final_path.name}.not_pdf.html"
BadPath(base) == [dir |-> <<>>, name |-> base \o <<".not_pdf.html">>]

\* hashlib.sha256(bytes).hexdigest(): its first two pairs of hex digits, and the rest of
\* the digits, which differ whenever the bytes do and are written here as the bytes
Sha256(bytes) ==
    LET pair1 == IF bytes = <<>> THEN "e3"
                 ELSE CASE bytes[1] = "%PDF-" -> "25"
                        [] bytes[1] = "hello " -> "68"
                        [] OTHER -> "3c"
        pair2 == CASE Len(bytes) = 0 -> "b0"
                   [] Len(bytes) = 1 -> "a1"
                   [] Len(bytes) = 2 -> "a2"
                   [] OTHER -> "a3"
    IN  <<pair1, pair2>> \o bytes

\* a path that puts every hashed file directly under output_dir
UnshardedPath(sha, suffix) == [dir |-> <<>>, name |-> WithSuffix(sha, suffix)]

\* output_dir / sha256[:2] / sha256[2:4] / f"{sha256}{suffix}"
HashedPath(sha, suffix) == [dir |-> <<sha[1], sha[2]>>, name |-> WithSuffix(sha, suffix)]

\* output_dir / f"{stem}-{sha256[:8]}{suffix}"
FlatAgainPath(name, sha) == [dir |-> <<>>, name |-> WithSuffix(Stem(name) \o <<"-", sha[1], sha[2]>>, Suffix(name))]

Exists(d, path) == path \in DOMAIN d

\* path.stat().st_size if path.exists() else 0
ExistingSize(d, path) == IF Exists(d, path) THEN Len(d[path]) ELSE 0

\* open(path, "wb").write(bytes), and path.unlink(missing_ok=True)
WriteFile(d, path, bytes) == [q \in DOMAIN d \cup {path} |-> IF q = path THEN bytes ELSE d[q]]

Unlink(d, path) == [q \in DOMAIN d \ {path} |-> d[q]]

\* utils.atomic_rename: os.replace(src, dst), which replaces a dst that exists
atomic_rename(d, src, dst) == [q \in (DOMAIN d \ {src}) \cup {dst} |-> IF q = dst THEN d[src] ELSE d[q]]

cookie_name == "justiceGovAgeVerified"

is_justice(u) == Lower(u.host) = Www

\* the request _download_once sends: Range when the .part has bytes, the cache headers
\* only when it has none, the cookies of the jar
\* a request that keeps the caller's cache headers beside Range
RequestKeepingHeaders(d, j, u, title, conditional) ==
    [range |-> ExistingSize(d, PartPath(BaseName(u, title))), conditional |-> conditional,
     cookie |-> is_justice(u) /\ cookie_name \in j]

Request(d, j, u, title, conditional) ==
    LET existing_size == ExistingSize(d, PartPath(BaseName(u, title)))
    IN  [range |-> existing_size, conditional |-> conditional /\ existing_size = 0,
         cookie |-> is_justice(u) /\ cookie_name \in j]

\* a response: status, Content-Type, the body received, and whether the transfer broke
\* after it
Response(status, content_type, body, broken) ==
    [status |-> status, content_type |-> content_type, body |-> body, broken |-> broken]

\* what the site may answer to a request
Responses(u, req) ==
    LET R == Resource(u)
        ct == ResourceType(u)
    IN  {Response(503, "", <<>>, FALSE)}
        \cup (IF req.conditional THEN {Response(304, ct, <<>>, FALSE)} ELSE {})
        \cup (IF req.range = 0
              THEN {Response(200, ct, R, FALSE)} \cup {Response(200, ct, SubSeq(R, 1, n), TRUE) : n \in 1..(Len(R) - 1)}
              ELSE IF req.range < Len(R)
              THEN {Response(206, ct, SubSeq(R, req.range + 1, Len(R)), FALSE), Response(200, ct, R, FALSE)}
              ELSE {Response(416, "", <<>>, FALSE), Response(200, ct, R, FALSE)})
        \cup (IF expect_pdf_by_url(u) /\ ~req.cookie THEN {Response(200, "text/html", GateHtml, FALSE)} ELSE {})
        \cup (IF expect_pdf_by_url(u) THEN {Response(200, "text/html", ErrorHtml, FALSE)} ELSE {})

Raise(d, j, message) == [kind |-> "raise", disk |-> d, jar |-> j, message |-> message, result |-> IdleDl.result]

\* the part file is stored: under the hash in the hashed layout, under its name in the
\* flat one, and the DownloadResult is returned
Store(d, j, s, u, base, resp, sha) ==
    LET part == PartPath(base)
        name == IF Suffix(base) = "" /\ resp.content_type = "application/pdf" THEN WithSuffix(base, ".pdf") ELSE base
        hashed_path == HashedPath(sha, Suffix(name))
        flat_path == IF Exists(d, FinalPath(name)) THEN FlatAgainPath(name, sha) ELSE FinalPath(name)
        local_path == IF s.storage_layout = "hashed" THEN hashed_path ELSE flat_path
    IN  [kind |-> "return",
         disk |-> IF s.storage_layout = "hashed" /\ Exists(d, hashed_path) THEN Unlink(d, part)
                  ELSE atomic_rename(d, part, local_path),
         jar |-> j, message |-> NULL,
         result |-> [url |-> u, local_path |-> local_path, content_type |-> resp.content_type, sha256 |-> sha]]

\* one call of _download_once, given the response to its request: the files and cookies
\* it leaves, and whether it returns, raises, or calls itself again
DownloadOnce(d, j, s, u, title, resp) ==
    LET base == BaseName(u, title)
        part == PartPath(base)
        before == ExistingSize(d, part)
        existing_size == IF before > 0 /\ resp.status = 200 THEN 0 ELSE before
        kept == IF existing_size > 0 THEN d[part] ELSE <<>>
        written == WriteFile(d, part, kept \o resp.body)
        sha == Sha256(kept \o resp.body)
        expect_pdf == expect_pdf_by_url(u) \/ resp.content_type = "application/pdf"
        head == resp.body
        looks_like_pdf == head # <<>> /\ head[1] = "%PDF-"
        looks_like_html == Contains(head, "<html>") \/ Contains(head, "<!doctype html>")
        is_htmlish == resp.content_type = "text/html" \/ looks_like_html
        looks_like_age_gate == Contains(head, "age-verify")
        retry_after_age_verify == is_justice(u) /\ s.age_verify_opt_in
    IN  IF resp.status = 304 THEN Raise(d, j, NotModified)
        ELSE IF resp.status >= 400 THEN Raise(d, j, "HTTP error")
        ELSE IF resp.broken THEN Raise(written, j, "ClientPayloadError")
        ELSE IF expect_pdf /\ is_htmlish /\ looks_like_age_gate /\ retry_after_age_verify /\ cookie_name \notin j
        THEN [kind |-> "again", disk |-> Unlink(written, part), jar |-> j \cup {cookie_name}, message |-> NULL,
              result |-> IdleDl.result]
        ELSE IF expect_pdf /\ is_htmlish /\ looks_like_age_gate /\ ~retry_after_age_verify
        THEN Raise(atomic_rename(written, part, BadPath(base)), j, "Age Verification")
        ELSE IF expect_pdf /\ (is_htmlish \/ ~looks_like_pdf)
        THEN Raise(atomic_rename(written, part, BadPath(base)), j, "Expected PDF")
        ELSE Store(written, j, s, u, base, resp, sha)

-----------------------------------------------------------------------------
(* SpecDl: a Downloader used as its tests use it: download(url, title,          *)
(* cache_headers) called on one output_dir, one call after the other            *)

DlUrls == {UPrivate, UWord}

\* no title, or a title without a suffix
DlTitles == {<<>>, <<"report">>}

DlCfgs ==
    {[DefaultCfg EXCEPT !.max_retries = m, !.storage_layout = l, !.age_verify_opt_in = a] :
        m \in 0..MaxRetries, l \in {"flat", "hashed"}, a \in BOOLEAN}

InitDl ==
    /\ InitDb
    /\ cfg \in DlCfgs
    /\ crawler = NoCrawler
    /\ tasks = [t \in Tasks |-> IdleTask]
    /\ clock = 1
    /\ stop = FALSE
    /\ phase = "idle"
    /\ InitSide

\* the caller awaits download(url, title, cache_headers=...), later than its call before
DlCall(u, title, conditional) ==
    /\ dl.pc \in {"idle", "returned", "raised"}
    /\ clock < MaxClock
    /\ clock' = clock + 1
    /\ dl' = [IdleDl EXCEPT !.pc = "loop", !.url = u, !.title = title, !.conditional = conditional,
                            !.before = disk]
    /\ UNCHANGED <<urls, batch, lastOp, cfg, crawler, tasks, stop, phase, pause, disk, jar, kv, fb>>
    /\ UNCHANGED libVars

\* one turn of the loop of download(), or the call _download_once makes of itself after
\* the age gate: the request is sent and _download_once runs to its end; what it raises
\* is counted by `except Exception`, which sleeps and loops, or ends the call
DlAttempt(resp) ==
    LET req == Request(disk, jar, dl.url, dl.title, dl.conditional)
        once == DownloadOnce(disk, jar, cfg, dl.url, dl.title, resp)
        n == dl.attempts + 1
    IN  /\ dl.pc \in {"loop", "again"}
        /\ ~stop
        /\ pause
        /\ resp \in Responses(dl.url, req)
        /\ disk' = once.disk
        /\ jar' = once.jar
        /\ dl' = CASE once.kind = "return" ->
                        [dl EXCEPT !.pc = "returned", !.result = once.result, !.sent = Append(@, req), !.resp = resp]
                   [] once.kind = "again" ->
                        [dl EXCEPT !.pc = "again", !.sent = Append(@, req), !.resp = resp]
                   [] once.kind = "raise" ->
                        [dl EXCEPT !.pc = IF n > cfg.max_retries THEN "raised" ELSE "loop",
                                   !.attempts = n, !.last_exc = once.message,
                                   !.sleeps = IF n > cfg.max_retries THEN @ ELSE @ + 1,
                                   !.sent = Append(@, req), !.resp = resp]
        /\ UNCHANGED <<urls, batch, lastOp, cfg, crawler, tasks, clock, stop, phase, pause, kv, fb>>
        /\ UNCHANGED libVars

NextDl ==
    \/ \E u \in DlUrls, title \in DlTitles, conditional \in BOOLEAN : DlCall(u, title, conditional)
    \/ \E resp \in UNION {Responses(u, [range |-> k, conditional |-> c, cookie |-> j]) :
                             u \in DlUrls, k \in 0..Len(PdfBytes), c \in BOOLEAN, j \in BOOLEAN} : DlAttempt(resp)

SpecDl == InitDl /\ [][NextDl]_vars

-----------------------------------------------------------------------------
(* Claims about the downloader, checked under SpecDl *)

\* the step is a request of the call under way, answered by dl'.resp
Attempts == dl.pc \in {"loop", "again"} /\ Len(dl'.sent) = Len(dl.sent) + 1

\* the .part file of the call under way
DlPart == PartPath(BaseName(dl.url, dl.title))

IsPrefix(p, bytes) == Len(p) <= Len(bytes) /\ SubSeq(bytes, 1, Len(p)) = p

\* the request meets a .part of k > 0 bytes, the first k of the resource, and the server
\* answers 206 with the bytes from k on, or 200 with all of them
Resumes ==
    LET k == ExistingSize(disk, DlPart)
        R == Resource(dl.url)
    IN  /\ Attempts
        /\ k > 0
        /\ k < Len(R)
        /\ IsPrefix(disk[DlPart], R)
        /\ ~dl'.resp.broken
        /\ \/ dl'.resp.status = 206 /\ dl'.resp.body = SubSeq(R, k + 1, Len(R))
           \/ dl'.resp.status = 200 /\ dl'.resp.body = R

\* C13 as stated: a download that meets a .part of k > 0 bytes asks for `Range: bytes=k-`
\* and, the server answering 206 with the rest or 200 with the whole, returns a local
\* file that is the complete resource, with the sha256 of exactly those bytes.
C13_AsStated ==
    [][Resumes =>
          /\ dl'.sent[Len(dl'.sent)].range = ExistingSize(disk, DlPart)
          /\ dl'.pc = "returned"
          /\ Exists(disk', dl'.result.local_path)
          /\ disk'[dl'.result.local_path] = Resource(dl.url)
          /\ dl'.result.sha256 = Sha256(Resource(dl.url))]_vars

\* a PDF is expected and the server's 200 carries a body that is HTML or does not begin
\* as a PDF does
NotAPdf ==
    /\ Attempts
    /\ dl'.resp.status = 200
    /\ ~dl'.resp.broken
    /\ expect_pdf_by_url(dl.url) \/ dl'.resp.content_type = "application/pdf"
    /\ dl'.resp.content_type = "text/html" \/ dl'.resp.body = <<>> \/ dl'.resp.body[1] # "%PDF-"

\* the body is the age gate, the user has opted in, and the consent cookie is not yet set
GateWithConsent ==
    /\ Contains(dl'.resp.body, "age-verify")
    /\ cfg.age_verify_opt_in
    /\ is_justice(dl.url)
    /\ cookie_name \notin jar

\* C14 as stated: when a PDF is expected and the body is not one, the body is kept under
\* the file's name with .not_pdf.html appended and the call of download() ends in failure
\* without another request; only for the age gate with the user's consent is one more
\* request made, with the consent cookie, and that request's result ends the call.
C14_AsStated ==
    [][/\ (NotAPdf /\ ~GateWithConsent) =>
             /\ dl'.pc = "raised"
             /\ Exists(disk', BadPath(BaseName(dl.url, dl.title)))
             /\ disk'[BadPath(BaseName(dl.url, dl.title))] = dl'.resp.body
       /\ (NotAPdf /\ GateWithConsent) => dl'.pc = "again"
       /\ (Attempts /\ dl.pc = "again") =>
             /\ dl'.sent[Len(dl'.sent)].cookie
             /\ dl'.pc \in {"returned", "raised"}]_vars

\* the files of the hashed layout: those two directories deep
HashedFiles(d) == {p \in DOMAIN d : Len(p.dir) = 2}

\* the extension a download is stored with: that of its name, or .pdf when the name has
\* none and the content type is a PDF's
StoredExt(name, content_type) ==
    IF Suffix(name) = "" /\ content_type = "application/pdf" THEN ".pdf" ELSE Suffix(name)

-----------------------------------------------------------------------------
(* Feedback: core/feedback.py apply_feedback, over table `kv` *)

\* float penalties are counted in hundredths: 0.05 is 5, 0.03 is 3, 0.60 is 60
PenaltyStep == 5
PenaltyRelief == 3
PenaltyCap == 60
BlacklistCap == 500

Min(a, b) == IF a <= b THEN a ELSE b

Max(a, b) == IF a >= b THEN a ELSE b

\* str.strip() on a string given as its tokens, " " being whitespace
RECURSIVE LStrip(_)
LStrip(s) == IF s # <<>> /\ Head(s) = " " THEN LStrip(Tail(s)) ELSE s

RECURSIVE RStrip(_)
RStrip(s) == IF s # <<>> /\ s[Len(s)] = " " THEN RStrip(SubSeq(s, 1, Len(s) - 1)) ELSE s

Strip(s) == RStrip(LStrip(s))

\* the lines of the keywords file, as the user typed them
Keywords == <<<<"flight", " ", "log">>, <<" ", "island", " ">>, <<" ">>>>

\* KeywordMatcher.__init__: the keywords it keeps, which are the patterns of its hits
MatcherKeywords == SelectSeq([i \in 1..Len(Keywords) |-> Strip(Keywords[i])], LAMBDA k : k # <<>>)

MatchHit(method, pattern) == [method |-> method, pattern |-> pattern]

\* tables `documents` and `matches`: doc_id -> the document's URL and its hits, best first
Documents ==
    [d \in 1..4 |->
        CASE d = 1 -> [url |-> UWord, matches |-> <<MatchHit("keyword", MatcherKeywords[1])>>]
          [] d = 2 -> [url |-> UOffsite,
                       matches |-> <<MatchHit("keyword", MatcherKeywords[1]), MatchHit("keyword", MatcherKeywords[2])>>]
          [] d = 3 -> [url |-> [UDoc EXCEPT !.host = MixedWww],
                       matches |-> <<MatchHit("keyword", MatcherKeywords[2])>>]
          [] OTHER -> [url |-> NoUrl, matches |-> <<>>]]

\* relevance.hostname
hostname(u) == Lower(u.host)

\* what the callers pass as label
Labels == {"irrelevant", "high_value", " Irrelevant", "reviewed"}

\* (label or "").strip().lower()
NormLabel(label) == IF label = " Irrelevant" THEN "irrelevant" ELSE label

\* INSERT INTO kv(key,value) ... ON CONFLICT(key) DO UPDATE SET value=excluded.value
kv_set(tbl, key, value) == [tbl EXCEPT ![key] = <<value>>]

\* kv_get and load_url_penalties: a JSON object of penalties is a function from host to
\* hundredths; no row gives the empty map, and an empty key is dropped
load_url_penalties(row) ==
    IF row = <<>> THEN <<>>
    ELSE [h \in DOMAIN row[1] \ {""} |-> row[1][h]]

dump_url_penalties(penalties) == penalties

\* penalties.get(host, 0.0) or 0.0
PenaltyOf(penalties, host) == IF host \in DOMAIN penalties THEN penalties[host] ELSE 0

\* a penalty update without the cap and the floor
Unclamped(lb, cur) == IF lb = "irrelevant" THEN cur + PenaltyStep ELSE cur - PenaltyRelief

\* cur = min(0.60, cur + 0.05) for irrelevant, max(0.0, cur - 0.03) for high_value
Clamped(lb, cur) ==
    IF lb = "irrelevant" THEN Min(PenaltyCap, cur + PenaltyStep) ELSE Max(0, cur - PenaltyRelief)

\* penalties[host] = cur
SetPenalty(penalties, host, cur) ==
    [h \in DOMAIN penalties \cup {host} |-> IF h = host THEN cur ELSE penalties[h]]

\* apply_feedback, lines 93-105
UpdatePenalties(tbl, lb, host) ==
    LET penalties == load_url_penalties(tbl.url_penalties)
        cur == Clamped(lb, PenaltyOf(penalties, host))
    IN  IF host # ""
        THEN kv_set(tbl, "url_penalties", dump_url_penalties(SetPenalty(penalties, host, cur)))
        ELSE tbl

\* a blacklisting rule that does not ask for a single hit
AnyHit(lb, matches) == lb = "irrelevant" /\ Len(matches) >= 1

\* lb == "irrelevant" and len(matches) == 1
SingleHit(lb, matches) == lb = "irrelevant" /\ Len(matches) = 1

\* bl[-500:]
LastN(s, n) == IF Len(s) <= n THEN s ELSE SubSeq(s, Len(s) - n + 1, Len(s))

\* kv_get, then json.loads(raw_bl) if raw_bl else [], keeping the entries that are not blank
LoadBlacklist(row) ==
    IF row = <<>> THEN <<>> ELSE SelectSeq(row[1], LAMBDA x : Strip(x) # <<>>)

\* apply_feedback, lines 107-127
UpdateBlacklist(tbl, lb, matches) ==
    IF SingleHit(lb, matches)
    THEN LET pat == Strip(matches[1].pattern)
             bl == LoadBlacklist(tbl.phrase_blacklist)
         IN  IF pat # <<>> /\ pat \notin Range(bl)
             THEN kv_set(tbl, "phrase_blacklist", LastN(Append(bl, pat), BlacklistCap))
             ELSE tbl
    ELSE tbl

InitFeedback ==
    /\ InitDb
    /\ cfg = DefaultCfg
    /\ crawler = NoCrawler
    /\ tasks = [t \in Tasks |-> IdleTask]
    /\ clock = 1
    /\ stop = FALSE
    /\ phase = "idle"
    /\ InitSide

\* the five steps of apply_feedback, in their order
Steps == <<"review", "move", "penalties", "blacklist", "centroid">>

\* the steps whose failure is caught inside apply_feedback: the try blocks of lines
\* 68-91, 108-127 and 133-143
Guarded == {"move", "blacklist", "centroid"}

\* what step i does to kv when it runs
StepKv(step, tbl, lb, doc) ==
    CASE step = "penalties" -> UpdatePenalties(tbl, lb, hostname(doc.url))
      [] step = "blacklist" -> UpdateBlacklist(tbl, lb, doc.matches)
      [] OTHER -> tbl

\* one step of apply_feedback, fault being the step whose first call raises: nothing
\* runs after a raise; a step that fails inside a try block is skipped, one that fails
\* outside ends the call
RunStep(step, st, lb, doc, fault) ==
    IF st.fb.raised THEN st
    ELSE IF step = fault
         THEN IF fault \in Guarded THEN st ELSE [st EXCEPT !.fb.raised = TRUE]
         ELSE [kv |-> StepKv(step, st.kv, lb, doc),
               fb |-> [st.fb EXCEPT !.ran = @ \cup {step}, !.review = IF step = "review" THEN lb ELSE @]]

\* the steps one after the other
RunSteps(st, lb, doc, fault) ==
    LET s1 == RunStep(Steps[1], st, lb, doc, fault)
        s2 == RunStep(Steps[2], s1, lb, doc, fault)
        s3 == RunStep(Steps[3], s2, lb, doc, fault)
        s4 == RunStep(Steps[4], s3, lb, doc, fault)
    IN  RunStep(Steps[5], s4, lb, doc, fault)

\* apply_feedback(db, doc_id, label) with an embedding provider: a label that is neither
\* irrelevant nor high_value returns at once
Feedback(tbl, f, doc_id, label, fault) ==
    LET lb == NormLabel(label)
        st == [kv |-> tbl,
               fb |-> [doc_id |-> doc_id, label |-> label, review |-> f.review, fault |-> fault,
                       ran |-> {}, raised |-> FALSE]]
    IN  IF lb \in {"irrelevant", "high_value"} THEN RunSteps(st, lb, Documents[doc_id], fault) ELSE st

\* apply_feedback(db, doc_id, label), no call of it failing
ApplyFeedback(doc_id, label) ==
    /\ LET after == Feedback(kv, fb, doc_id, label, "none")
       IN  fb' = after.fb /\ kv' = after.kv
    /\ UNCHANGED <<urls, batch, lastOp, cfg, crawler, tasks, clock, stop, phase, pause, disk, jar, dl>>
    /\ UNCHANGED libVars

\* apply_feedback(db, doc_id, label), the first call of one of its steps raising: the
\* database is locked, the file cannot be moved, the provider fails
ApplyFeedbackFailing(doc_id, label, fault) ==
    /\ fault \in Range(Steps)
    /\ LET after == Feedback(kv, fb, doc_id, label, fault)
       IN  fb' = after.fb /\ kv' = after.kv
    /\ UNCHANGED <<urls, batch, lastOp, cfg, crawler, tasks, clock, stop, phase, pause, disk, jar, dl>>
    /\ UNCHANGED libVars

NextFeedback == \E doc_id \in DOMAIN Documents, label \in Labels : ApplyFeedback(doc_id, label)

SpecFeedback == InitFeedback /\ [][NextFeedback]_vars

\* the calls that may fail: for a document of www.justice.gov and for one without a host
NextFaults ==
    \/ \E doc_id \in {1, 4}, label \in {"irrelevant", "high_value"} : ApplyFeedback(doc_id, label)
    \/ \E doc_id \in {1, 4}, label \in {"irrelevant", "high_value"}, fault \in Range(Steps) :
            ApplyFeedbackFailing(doc_id, label, fault)

SpecFaults == InitFeedback /\ [][NextFaults]_vars

-----------------------------------------------------------------------------
(* Claims about feedback, checked under SpecFeedback *)

\* the penalty map as the worker loads it
Penalties == load_url_penalties(kv.url_penalties)

\* the last call was apply_feedback(doc_id, label)
Applied(doc_id, label) == fb'.doc_id = doc_id /\ fb'.label = label

\* C19: starting from an empty penalty map, every host's penalty stays within 0 and 0.60;
\* a call labelled irrelevant raises the penalty of the document's host by 0.05, up to 0.60,
\* one labelled high_value lowers it by 0.03, down to 0, and no other host's penalty changes
C19_Penalties ==
    /\ [](\A h \in DOMAIN Penalties : Penalties[h] \in 0..PenaltyCap)
    /\ [][\A d \in DOMAIN Documents, l \in Labels :
            Applied(d, l) =>
                LET host == hostname(Documents[d].url)
                    old == PenaltyOf(Penalties, host)
                IN  /\ (host # "" /\ NormLabel(l) = "irrelevant") =>
                            /\ host \in DOMAIN Penalties'
                            /\ Penalties'[host] = IF old + PenaltyStep > PenaltyCap THEN PenaltyCap
                                                  ELSE old + PenaltyStep
                    /\ (host # "" /\ NormLabel(l) = "high_value") =>
                            /\ host \in DOMAIN Penalties'
                            /\ Penalties'[host] = IF old < PenaltyRelief THEN 0 ELSE old - PenaltyRelief
                    /\ DOMAIN Penalties' \subseteq DOMAIN Penalties \cup {host}
                    /\ \A h \in DOMAIN Penalties \ {host} :
                            h \in DOMAIN Penalties' /\ Penalties'[h] = Penalties[h]]_vars

\* one host is at the cap, and a high_value call has just left the other at the floor
C19_Witness ==
    /\ fb.doc_id = 2
    /\ fb.label = "high_value"
    /\ DOMAIN Penalties = {Www, Elsewhere}
    /\ Penalties[Www] = PenaltyCap
    /\ Penalties[Elsewhere] = 0

\* C20: a call labelled irrelevant for a document with exactly one recorded match leaves
\* that match's pattern in the phrase blacklist; for a document with two or more matches
\* it leaves the blacklist as it was
C20_SingleHitBlacklisted ==
    [][\A d \in DOMAIN Documents, l \in Labels :
            (Applied(d, l) /\ NormLabel(l) = "irrelevant") =>
                LET matches == Documents[d].matches
                IN  /\ Len(matches) = 1 =>
                            /\ kv'.phrase_blacklist # <<>>
                            /\ matches[1].pattern \in Range(kv'.phrase_blacklist[1])
                    /\ Len(matches) >= 2 => kv'.phrase_blacklist = kv.phrase_blacklist]_vars

\* the document with two matches was just marked irrelevant; the blacklist holds the
\* pattern of a single-match document and neither one more than that
C20_Witness ==
    /\ fb.doc_id = 2
    /\ fb.label = "irrelevant"
    /\ kv.phrase_blacklist = <<<<Documents[3].matches[1].pattern>>>>

-----------------------------------------------------------------------------
(* Boolean queries: core/matching.py BooleanQueryEngine *)

\* A query is given as its lexemes, which is what tokenize() cuts it into; a text is
\* given as its words in lower case, which is what re.findall(r"\w+", text.lower()) finds.

\* queries have at most MaxQueryLen lexemes, texts at most MaxTextLen words
MaxQueryLen == 5
MaxTextLen == 5

\* tok.upper(), on the lexemes that have a lower-case spelling
Upper(tok) == IF tok = "not" THEN "NOT" ELSE tok

NearOps == {"NEAR/0", "NEAR/1", "NEAR/2", "NEAR/3"}

\* u.startswith("NEAR/")
IsNear(u) == u \in NearOps

\* int(u.split("/", 1)[1])
NearN(u) == CASE u = "NEAR/0" -> 0 [] u = "NEAR/1" -> 1 [] u = "NEAR/2" -> 2 [] OTHER -> 3

\* tokenize: the lexemes that are not blank
tokenize(query) == SelectSeq(query, LAMBDA t : t # " ")

\* op_key
op_key(tok) == IF IsNear(Upper(tok)) THEN "NEAR" ELSE Upper(tok)

\* prec.get(k, 0)
prec(k) == CASE k = "NOT" -> 3 [] k = "NEAR" -> 2 [] k = "AND" -> 2 [] k = "OR" -> 1 [] OTHER -> 0

Reverse(s) == [i \in 1..Len(s) |-> s[Len(s) + 1 - i]]

\* how many entries the while loops pop: those on top of the stack that are not "(" and
\* whose precedence is at least k
RECURSIVE PopCount(_, _)
PopCount(stack, k) ==
    IF stack # <<>> /\ stack[Len(stack)] # "(" /\ prec(op_key(stack[Len(stack)])) >= k
    THEN 1 + PopCount(SubSeq(stack, 1, Len(stack) - 1), k)
    ELSE 0

\* the entries popped, top first, and the stack they leave
Popped(stack, n) == Reverse(SubSeq(stack, Len(stack) - n + 1, Len(stack)))

Remaining(stack, n) == SubSeq(stack, 1, Len(stack) - n)

\* the for loop of _parse_to_rpn and the final while
RECURSIVE Shunt(_, _, _)
Shunt(tokens, out, stack) ==
    IF tokens = <<>> THEN out \o Reverse(stack)
    ELSE LET tok == Head(tokens)
             u == Upper(tok)
         IN  CASE tok = "(" -> Shunt(Tail(tokens), out, Append(stack, tok))
               [] tok = ")" ->
                    LET n == PopCount(stack, 0)
                        left == Remaining(stack, n)
                    IN  Shunt(Tail(tokens), out \o Popped(stack, n),
                              IF left # <<>> THEN SubSeq(left, 1, Len(left) - 1) ELSE left)
               [] u \in {"AND", "OR", "NOT"} \/ IsNear(u) ->
                    LET n == PopCount(stack, prec(op_key(tok)))
                    IN  Shunt(Tail(tokens), out \o Popped(stack, n), Append(Remaining(stack, n), tok))
               [] OTHER -> Shunt(Tail(tokens), Append(out, tok), stack)

_parse_to_rpn(tokens) == Shunt(tokens, <<>>, <<>>)

\* the quoted phrases a query may hold
QFlightLog == "\"flight log\""
QMinorVictim == "\"minor victim\""

\* _term_tokens: the words of a term, quotes removed
_term_tokens(term) ==
    CASE term = QFlightLog -> <<"flight", "log">>
      [] term = QMinorVictim -> <<"minor", "victim">>
      [] OTHER -> <<term>>

\* _phrase_positions
_phrase_positions(words, phrase) ==
    IF phrase = <<>> THEN {}
    ELSE IF Len(phrase) = 1 THEN {i \in 1..Len(words) : words[i] = phrase[1]}
    ELSE {i \in 1..Max(0, Len(words) - Len(phrase) + 1) : SubSeq(words, i, i + Len(phrase) - 1) = phrase}

\* _term_present: the words of the term in a row, between word boundaries
_term_present(term, text) == _phrase_positions(text, LowerSeq(_term_tokens(term))) # {}

\* a test of nearness that reads the phrases in their order only
Follows(i, j, n) == j - i <= n

\* abs(i - j) <= n
Within(i, j, n) == (IF i >= j THEN i - j ELSE j - i) <= n

\* _near_present, on the words of the two details
_near_present(left, right, n, text) ==
    LET left_pos == _phrase_positions(text, LowerSeq(left))
        right_pos == _phrase_positions(text, LowerSeq(right))
    IN  /\ left # <<>>
        /\ right # <<>>
        /\ \E i \in left_pos, j \in right_pos : Within(i, j, n)

\* an entry of the evaluation stack: the value, and the detail string as the words
\* _term_tokens finds in it
Entry(ok, detail) == [ok |-> ok, detail |-> detail]

NoEntry == Entry(FALSE, <<>>)

\* the words of "NEAR/n" inside a detail string
NearWords(u) == <<"NEAR", CASE u = "NEAR/0" -> "0" [] u = "NEAR/1" -> "1" [] u = "NEAR/2" -> "2" [] OTHER -> "3">>

\* _eval_rpn: stack.pop() on an empty stack raises IndexError
RECURSIVE EvalRpn(_, _, _)
EvalRpn(rpn, text, stack) ==
    IF rpn = <<>>
    THEN [raised |-> FALSE, top |-> IF stack = <<>> THEN NoEntry ELSE stack[Len(stack)]]
    ELSE LET tok == Head(rpn)
             u == Upper(tok)
             n == Len(stack)
         IN  CASE u = "NOT" ->
                    IF n < 1 THEN [raised |-> TRUE, top |-> NoEntry]
                    ELSE EvalRpn(Tail(rpn), text,
                                 Append(SubSeq(stack, 1, n - 1),
                                        Entry(~stack[n].ok, <<"NOT">> \o stack[n].detail)))
               [] u \in {"AND", "OR"} ->
                    IF n < 2 THEN [raised |-> TRUE, top |-> NoEntry]
                    ELSE EvalRpn(Tail(rpn), text,
                                 Append(SubSeq(stack, 1, n - 2),
                                        Entry(IF u = "AND" THEN stack[n - 1].ok /\ stack[n].ok
                                                           ELSE stack[n - 1].ok \/ stack[n].ok,
                                              stack[n - 1].detail \o <<u>> \o stack[n].detail)))
               [] IsNear(u) ->
                    IF n < 2 THEN [raised |-> TRUE, top |-> NoEntry]
                    ELSE EvalRpn(Tail(rpn), text,
                                 Append(SubSeq(stack, 1, n - 2),
                                        Entry(_near_present(stack[n - 1].detail, stack[n].detail, NearN(u), text),
                                              stack[n - 1].detail \o NearWords(u) \o stack[n].detail)))
               [] OTHER ->
                    EvalRpn(Tail(rpn), text, Append(stack, Entry(_term_present(tok, text), _term_tokens(tok))))

_eval_rpn(rpn, text) == EvalRpn(rpn, text, <<>>)

\* evaluate: one hit when the query holds, none when it does not or when it raises
evaluate(query, text) ==
    LET r == _eval_rpn(_parse_to_rpn(tokenize(query)), text)
    IN  ~r.raised /\ r.top.ok

\* the lexemes of the boolean queries evaluated, and the terms among them
Terms == {"a", "b", "c"}

\* how many parentheses are open before lexeme i
Depth(toks, i) ==
    Cardinality({k \in 1..(i - 1) : toks[k] = "("}) - Cardinality({k \in 1..(i - 1) : toks[k] = ")"})

\* the places of operator op outside every parenthesis
TopOps(toks, op) == {i \in 1..Len(toks) : Upper(toks[i]) = op /\ Depth(toks, i) = 0}

Last(S) == CHOOSE i \in S : \A k \in S : k <= i

\* the grammar of a boolean query: OR of AND of NOT of a term or a parenthesis
RECURSIVE IsOr(_), IsAnd(_), IsNot(_)
IsOr(toks) ==
    IF TopOps(toks, "OR") # {}
    THEN LET i == Last(TopOps(toks, "OR"))
         IN  IsOr(SubSeq(toks, 1, i - 1)) /\ IsAnd(SubSeq(toks, i + 1, Len(toks)))
    ELSE IsAnd(toks)

IsAnd(toks) ==
    IF TopOps(toks, "AND") # {}
    THEN LET i == Last(TopOps(toks, "AND"))
         IN  IsAnd(SubSeq(toks, 1, i - 1)) /\ IsNot(SubSeq(toks, i + 1, Len(toks)))
    ELSE IsNot(toks)

IsNot(toks) ==
    /\ toks # <<>>
    /\ IF Upper(toks[1]) = "NOT" THEN IsNot(Tail(toks))
       ELSE \/ Len(toks) = 1 /\ toks[1] \in Terms
            \/ /\ Len(toks) >= 3
               /\ toks[1] = "("
               /\ toks[Len(toks)] = ")"
               /\ IsOr(SubSeq(toks, 2, Len(toks) - 1))

\* the value of a query of that grammar over a text: the boolean combination of its terms
RECURSIVE ValOr(_, _), ValAnd(_, _), ValNot(_, _)
ValOr(toks, text) ==
    IF TopOps(toks, "OR") # {}
    THEN LET i == Last(TopOps(toks, "OR"))
         IN  ValOr(SubSeq(toks, 1, i - 1), text) \/ ValAnd(SubSeq(toks, i + 1, Len(toks)), text)
    ELSE ValAnd(toks, text)

ValAnd(toks, text) ==
    IF TopOps(toks, "AND") # {}
    THEN LET i == Last(TopOps(toks, "AND"))
         IN  ValAnd(SubSeq(toks, 1, i - 1), text) /\ ValNot(SubSeq(toks, i + 1, Len(toks)), text)
    ELSE ValNot(toks, text)

ValNot(toks, text) ==
    IF Upper(toks[1]) = "NOT" THEN ~ValNot(Tail(toks), text)
    ELSE IF Len(toks) = 1 THEN toks[1] \in Range(text)
    ELSE ValOr(SubSeq(toks, 2, Len(toks) - 1), text)

\* the queries of the grammar that have n lexemes
RECURSIVE QueriesOfLen(_)
QueriesOfLen(n) ==
    IF n < 1 THEN {}
    ELSE IF n = 1 THEN {<<t>> : t \in Terms}
    ELSE {<<"NOT">> \o e : e \in QueriesOfLen(n - 1)}
            \cup {<<"(">> \o e \o <<")">> : e \in QueriesOfLen(n - 2)}
            \cup UNION {{l \o <<op>> \o r : l \in QueriesOfLen(i), r \in QueriesOfLen(n - 1 - i), op \in {"AND", "OR"}} :
                        i \in 1..(n - 2)}

\* the boolean queries evaluated: every query of the grammar of at most n lexemes, and
\* one that spells an operator in lower case
BoolQueries(n) == UNION {QueriesOfLen(k) : k \in 1..n} \cup {<<"not", "a", "AND", "b">>}

\* the texts they are evaluated over: each set of terms present
BoolTexts == {SeqOf(S) : S \in SUBSET Terms}

\* the NEAR queries evaluated, over two phrases, and the texts: every text of at most
\* n words
Phrases == {QFlightLog, QMinorVictim, "minor"}

NearQueries == {<<l, " ", n, " ", r>> : l \in Phrases, r \in Phrases, n \in NearOps}

TextWords == {"flight", "log", "minor", "victim", "x"}

NearTexts(n) == UNION {[1..k -> TextWords] : k \in 0..n}

\* the caller is about to evaluate a boolean query or a NEAR query over a text
Calls(n, m) ==
    {[NoEngine EXCEPT !.pc = "call", !.query = q, !.text = t] : q \in BoolQueries(n), t \in BoolTexts}
        \cup {[NoEngine EXCEPT !.pc = "call", !.query = q, !.text = t] : q \in NearQueries, t \in NearTexts(m)}

InitQuery ==
    /\ InitDb
    /\ cfg = DefaultCfg
    /\ crawler = NoCrawler
    /\ tasks = [t \in Tasks |-> IdleTask]
    /\ clock = 1
    /\ stop = FALSE
    /\ phase = "idle"
    /\ InitEffects
    /\ matcher = NoMatcher
    /\ documents = NoDocuments
    /\ search = NoSearch
    /\ engine \in Calls(MaxQueryLen, MaxTextLen)
    /\ throttle = NoThrottle
    /\ control = NoControl
    /\ relevance = NoRelevance

\* BooleanQueryEngine().evaluate(query, text)
Evaluate ==
    /\ engine.pc = "call"
    /\ engine' = [engine EXCEPT !.pc = "done", !.rpn = _parse_to_rpn(tokenize(engine.query)),
                                !.hit = evaluate(engine.query, engine.text)]
    /\ UNCHANGED <<mainVars, matcher, documents, search, throttle>>

NextQuery == Evaluate

SpecQuery == InitQuery /\ [][NextQuery]_vars

-----------------------------------------------------------------------------
(* Claims about boolean queries, checked under SpecQuery *)

\* C25: a query of AND, OR, NOT, terms and parentheses evaluates to the boolean combination
\* of its terms read with NOT binding tighter than AND, AND tighter than OR, the binary
\* operators left-associative and parentheses overriding
C25_AsStated ==
    (engine.pc = "done" /\ IsOr(tokenize(engine.query)))
        => engine.hit = ValOr(tokenize(engine.query), engine.text)

\* C26: L NEAR/n R over two phrases matches exactly when an occurrence of L and an
\* occurrence of R, each a run of whole words, start at most n words apart
C26_NearPhrases ==
    \A l \in Phrases, r \in Phrases, n \in NearOps :
        (engine.pc = "done" /\ engine.query = <<l, " ", n, " ", r>>) =>
            (engine.hit <=>
                \E i \in 1..Len(engine.text), j \in 1..Len(engine.text) :
                    /\ i + Len(_term_tokens(l)) - 1 <= Len(engine.text)
                    /\ j + Len(_term_tokens(r)) - 1 <= Len(engine.text)
                    /\ \A k \in 1..Len(_term_tokens(l)) : engine.text[i + k - 1] = _term_tokens(l)[k]
                    /\ \A k \in 1..Len(_term_tokens(r)) : engine.text[j + k - 1] = _term_tokens(r)[k]
                    /\ i - j <= NearN(n)
                    /\ j - i <= NearN(n))

\* "flight log" NEAR/3 "minor victim" holds with the phrases three words apart, the
\* second one first
C26_Witness ==
    /\ engine.query = <<QFlightLog, " ", "NEAR/3", " ", QMinorVictim>>
    /\ engine.pc = "done"
    /\ engine.text = <<"minor", "victim", "x", "flight", "log">>
    /\ engine.hit

\* "flight log" NEAR/3 "minor" fails with the phrases four words apart
C26_WitnessFar ==
    /\ engine.query = <<QFlightLog, " ", "NEAR/3", " ", "minor">>
    /\ engine.pc = "done"
    /\ engine.text = <<"flight", "log", "x", "x", "minor">>
    /\ ~engine.hit

-----------------------------------------------------------------------------
(* Matching: core/matching.py KeywordMatcher, as gui/worker.py builds it for a run *)

\* the seed keywords of the keywords file: a phrase, a padded word, a blank line, a
\* wildcard and a regular expression
SeedKeywords == Keywords \o <<<<"esc*">>, <<"re:", "minor\\s+victim">>>>

\* the queries the user may have set, none among them
QuerySettings == {<<>>, <<"ledger">>, <<"NOT", " ", "island">>}

\* the document texts a run matches, as their words
MatchTexts ==
    {<<"flight", "log">>, <<"island">>, <<"escort">>, <<"minor", "victim">>, <<"ledger">>, <<"island", "ledger">>}

\* worker.py: blacklist = {str(x).strip() for x in data if str(x).strip()}
RunBlacklist(row) == {Strip(x) : x \in Range(LoadBlacklist(row))}

\* worker.py: keywords = [k for k in keywords if k.strip() and k.strip() not in blacklist]
FilteredKeywords(keywords, blacklist) ==
    IF blacklist = {} THEN keywords
    ELSE SelectSeq(keywords, LAMBDA k : Strip(k) # <<>> /\ Strip(k) \notin blacklist)

\* KeywordMatcher.__init__: self._keywords
StrippedKeywords(keywords) == SelectSeq([i \in 1..Len(keywords) |-> Strip(keywords[i])], LAMBDA k : k # <<>>)

\* kw.startswith("re:")
IsRegex(kw) == kw[1] = "re:"

\* "*" in kw or "?" in kw
IsWildcard(kw) == ~IsRegex(kw) /\ "esc*" \in Range(kw)

IsLiteral(kw) == ~IsRegex(kw) /\ ~IsWildcard(kw)

\* re.findall(r"\w+", kw): the words of a literal keyword
KeywordWords(kw) == SelectSeq(kw, LAMBDA t : t # " ")

\* the literal's words in a row, between word boundaries
LiteralHit(kw, text) == _phrase_positions(text, LowerSeq(KeywordWords(kw))) # {}

\* fnmatch.fnmatch(w.lower(), pat.lower()) for some word of the text
WildcardHit(kw, text) == kw = <<"esc*">> /\ "escort" \in Range(text)

\* rx.finditer(text) finds something
RegexHit(kw, text) == kw = <<"re:", "minor\\s+victim">> /\ _phrase_positions(text, <<"minor", "victim">>) # {}

\* fuzz.token_set_ratio at 0.92 or more, for literals of two words or more: every word
\* of the keyword is in the sentence
FuzzyHit(kw, text) == Len(KeywordWords(kw)) > 1 /\ Range(LowerSeq(KeywordWords(kw))) \subseteq Range(text)

\* KeywordMatcher.match: the hits, each with its method and pattern; semantic matching
\* is off, as it is by default
Hits(keywords, query, text) ==
    {MatchHit("keyword", keywords[i]) : i \in {k \in 1..Len(keywords) : IsLiteral(keywords[k]) /\ LiteralHit(keywords[k], text)}}
        \cup {MatchHit("wildcard", keywords[i]) : i \in {k \in 1..Len(keywords) : IsWildcard(keywords[k]) /\ WildcardHit(keywords[k], text)}}
        \cup {MatchHit("regex", keywords[i]) : i \in {k \in 1..Len(keywords) : IsRegex(keywords[k]) /\ RegexHit(keywords[k], text)}}
        \cup {MatchHit("query", query) : x \in {y \in {1} : query # <<>> /\ evaluate(query, text)}}
        \cup {MatchHit("fuzzy", keywords[i]) : i \in {k \in 1..Len(keywords) : IsLiteral(keywords[k]) /\ FuzzyHit(keywords[k], text)}}

InitMatch ==
    /\ InitDb
    /\ cfg \in {[DefaultCfg EXCEPT !.query = q] : q \in QuerySettings}
    /\ crawler = NoCrawler
    /\ tasks = [t \in Tasks |-> IdleTask]
    /\ clock = 1
    /\ stop = FALSE
    /\ phase = "idle"
    /\ InitSide

\* _run_async, lines 132-151: a run starts and builds its matcher from the keywords
\* file, the blacklist in kv and the query of the settings
RunBuildMatcher ==
    LET blacklist == RunBlacklist(kv.phrase_blacklist)
    IN  /\ matcher' = [NoMatcher EXCEPT !.built = TRUE, !.blacklist = blacklist,
                                        !.keywords = StrippedKeywords(FilteredKeywords(SeedKeywords, blacklist)),
                                        !.query = Strip(cfg.query)]
        /\ UNCHANGED <<mainVars, documents, search, engine, throttle>>

\* the run matches the text of a document; its hits become the document's matches
MatchDocument(text) ==
    /\ matcher.built
    /\ matcher' = [matcher EXCEPT !.text = text, !.hits = Hits(matcher.keywords, matcher.query, text)]
    /\ UNCHANGED <<mainVars, documents, search, engine, throttle>>

\* apply_feedback(doc_id, "irrelevant") for the document matched last, a document of UWord
MarkIrrelevant ==
    /\ matcher.hits # {}
    /\ kv' = UpdateBlacklist(UpdatePenalties(kv, "irrelevant", hostname(UWord)), "irrelevant", SeqOf(matcher.hits))
    /\ fb' = [NoFeedback EXCEPT !.doc_id = 1, !.label = "irrelevant", !.review = "irrelevant", !.ran = Range(Steps)]
    /\ UNCHANGED <<urls, batch, lastOp, cfg, crawler, tasks, clock, stop, phase, pause, disk, jar, dl>>
    /\ UNCHANGED libVars

NextMatch ==
    \/ RunBuildMatcher
    \/ \E text \in MatchTexts : MatchDocument(text)
    \/ MarkIrrelevant

SpecMatch == InitMatch /\ [][NextMatch]_vars

-----------------------------------------------------------------------------
(* Claims about matching, checked under SpecMatch *)

\* C21: a run started after a pattern was blacklisted produces no hit with that pattern,
\* whichever method produced the single match that got it blacklisted
C21_AsStated == \A h \in matcher.hits : h.pattern \notin matcher.blacklist

-----------------------------------------------------------------------------
(* Claims about failing feedback steps, checked under SpecFaults *)

\* C22: the five steps of apply_feedback are independent: when one of them fails, each of
\* the other four still runs
C22_AsStated ==
    (fb.doc_id # 0 /\ fb.fault # "none") => Range(Steps) \ {fb.fault} \subseteq fb.ran

-----------------------------------------------------------------------------
(* Documents: core/db.py add_document, next to the frontier operations *)

\* the digests of the files stored: two URLs may serve the same bytes
Digests == {"sha", "sha2"}

\* a lookup that finds no stored document
SelectNone(rows, sha256) == {}

\* SELECT id FROM documents WHERE sha256=?
SelectIdBySha(rows, sha256) == {rows[i].id : i \in {k \in 1..Len(rows) : rows[k].sha256 = sha256}}

\* INSERT INTO documents(...): id INTEGER PRIMARY KEY AUTOINCREMENT
InsertDocument(rows, u, sha256) == Append(rows, [id |-> Len(rows) + 1, url |-> u, sha256 |-> sha256])

\* add_document: the table after the call and the id returned
add_document(rows, u, sha256) ==
    LET found == SelectIdBySha(rows, sha256)
    IN  IF found # {}
        THEN [rows |-> rows, id |-> CHOOSE id \in found : TRUE]
        ELSE [rows |-> InsertDocument(rows, u, sha256), id |-> Len(rows) + 1]

DocUrls == {UDoc, UWord}

InitDocs == InitFrontier

\* the pipeline stores the document fetched from u
AddDocument(u, sha256) ==
    /\ documents' = [rows |-> add_document(documents.rows, u, sha256).rows,
                     last |-> [url |-> u, sha256 |-> sha256, id |-> add_document(documents.rows, u, sha256).id]]
    /\ lastOp' = Op("add_document", "caller", {u}, u, NULL, FALSE, 0, 0)
    /\ UNCHANGED <<urls, batch, cfg, crawler, tasks, clock, stop, phase, pause, disk, jar, dl, kv, fb>>
    /\ UNCHANGED <<matcher, search, engine, throttle, control, relevance>>

\* add_document, and the frontier operations around it: the URL is queued, and marked
\* done with its digest
NextDocs ==
    \/ \E u \in DocUrls, sha256 \in Digests : AddDocument(u, sha256)
    \/ \E u \in DocUrls : DbUpsertUrls({u}, "queued", 1, FALSE)
    \/ \E u \in DocUrls, sha256 \in Digests :
          DbUpdateUrlAttempt(u, [Attempt("done", "200", NULL) EXCEPT !.local_path = "path", !.sha256 = sha256])
    \/ DbClearPendingUrls

SpecDocs == InitDocs /\ [][NextDocs]_vars

-----------------------------------------------------------------------------
(* Claims about documents, checked under SpecDocs *)

\* C23: there is at most one document row per sha256; add_document for a sha256 already
\* stored returns the id of the existing row and inserts nothing; no add_document
\* touches a URL row
C23_OneRowPerDigest ==
    /\ [](\A i, j \in 1..Len(documents.rows) :
            documents.rows[i].sha256 = documents.rows[j].sha256 => i = j)
    /\ [][lastOp'.op = "add_document" =>
            /\ urls' = urls
            /\ \A i \in 1..Len(documents.rows) :
                    documents.rows[i].sha256 = documents'.last.sha256 =>
                        /\ documents'.rows = documents.rows
                        /\ documents'.last.id = documents.rows[i].id]_vars

\* the same bytes were stored from two URLs: one document row, kept under the first URL,
\* the second call returning its id, and each URL with its own row marked done
C23_Witness ==
    /\ Len(documents.rows) = 1
    /\ documents.rows[1].url = UDoc
    /\ documents.last = [url |-> UWord, sha256 |-> "sha", id |-> 1]
    /\ \E r1, r2 \in urls : r1.url = UDoc /\ r2.url = UWord /\ r1.sha256 = "sha" /\ r2.sha256 = "sha"

-----------------------------------------------------------------------------
(* Interactive search: core/hybrid_search.py HybridSearcher.search *)

\* Scores are counted in six-hundredths, which holds (N - i) / N for N up to 3 and the
\* weights to two decimals: 0.35 is 210, 0.60 is 360, 0.7 * tanh(1.5) is 380.

\* the documents searched
SearchDocs == 1..3

\* what is stored about a document: its relevance score (0 or 1), the URL penalty of its
\* host in hundredths, its review status
StoredMetrics ==
    {[relevance_score |-> 0, url_penalty |-> 0, review_status |-> "new"],
     [relevance_score |-> 1, url_penalty |-> 0, review_status |-> "high_value"],
     [relevance_score |-> 0, url_penalty |-> PenaltyCap, review_status |-> "irrelevant"],
     [relevance_score |-> 1, url_penalty |-> PenaltyCap, review_status |-> "new"]}

\* the similarities the embeddings of a document give when there is a provider: to the
\* query, and to the high_value centroid less the irrelevant one
Similarities == [semantic : {0, 300}, feedback_boost : {0, 300}]

\* whether r.get(key) finds the key in the row
Has(r, key) == key \in DOMAIN r

\* a full-text search that joins the stored metrics to each row
fts_search_with_metrics(candidates, stored) ==
    [i \in 1..Len(candidates) |->
        [doc_id |-> candidates[i], relevance_score |-> stored[candidates[i]].relevance_score,
         url_penalty |-> stored[candidates[i]].url_penalty, review_status |-> stored[candidates[i]].review_status]]

\* Database.fts_search: doc_id, url, title and bm25 of the rows that match, best first
fts_search(candidates, stored) == [i \in 1..Len(candidates) |-> [doc_id |-> candidates[i]]]

\* _keyword_rank_scores: (n - i) / n for the i-th row, counting from 0
_keyword_rank_scores(rows) ==
    LET n == Max(1, Len(rows))
    IN  [d \in {rows[i].doc_id : i \in {k \in 1..Len(rows) : rows[k].doc_id > 0}} |->
            LET i == Last({k \in 1..Len(rows) : rows[k].doc_id = d})
            IN  (600 * (n - (i - 1))) \div n]

\* self._prior_weight * _tanh(1.5 * prior), prior being 0.0 for a row without the key
PriorTerm(r) == IF ~Has(r, "relevance_score") THEN 0 ELSE IF r.relevance_score = 1 THEN 380 ELSE 0

\* self._url_penalty_weight * float(r.get("url_penalty") or 0.0)
PenaltyTerm(r) == IF ~Has(r, "url_penalty") THEN 0 ELSE (210 * r.url_penalty) \div 100

\* _review_bias(str(r.get("review_status") or "new"))
_review_bias(r) ==
    IF ~Has(r, "review_status") THEN 0
    ELSE CASE r.review_status = "high_value" -> 210
           [] r.review_status = "irrelevant" -> 0 - 360
           [] OTHER -> 0

\* the score of one row: the embeddings are read only with a provider
Score(r, keyword_rank, provider, sim) ==
    (IF r.doc_id \in DOMAIN keyword_rank THEN keyword_rank[r.doc_id] ELSE 0)
        + (IF provider THEN 2 * sim.semantic ELSE 0)
        + (IF provider THEN (14 * sim.feedback_boost) \div 10 ELSE 0)
        + PriorTerm(r) - PenaltyTerm(r) + _review_bias(r)

\* reranked.sort(key=score, reverse=True): a stable sort, the higher score first
SortByScore(rows) ==
    LET Before(j, i) == rows[j].score > rows[i].score \/ (rows[j].score = rows[i].score /\ j < i)
        Place(i) == Cardinality({j \in 1..Len(rows) : Before(j, i)}) + 1
    IN  [k \in 1..Len(rows) |-> rows[CHOOSE i \in 1..Len(rows) : Place(i) = k]]

\* search, for a query that is not blank: the rows with a doc_id, scored, sorted, cut
HybridSearch(fts, provider, sims, limit) ==
    LET keyword_rank == _keyword_rank_scores(fts)
        kept == SelectSeq(fts, LAMBDA r : r.doc_id > 0)
        reranked == [i \in 1..Len(kept) |->
                        [doc_id |-> kept[i].doc_id,
                         score |-> Score(kept[i], keyword_rank, provider, sims[kept[i].doc_id])]]
        sorted == SortByScore(reranked)
    IN  SubSeq(sorted, 1, Min(limit, Len(sorted)))

\* the lists of candidates full-text search may give: documents, each at most once
RECURSIVE Arrangements(_)
Arrangements(S) == {<<>>} \cup UNION {{<<d>> \o rest : rest \in Arrangements(S \ {d})} : d \in S}

\* the caller is about to search: what is stored, the candidates, the provider or none
Searches ==
    {[NoSearch EXCEPT !.pc = "call", !.provider = p, !.limit = l, !.stored = st, !.sims = sm, !.fts = c] :
        p \in BOOLEAN, l \in {2, 200}, st \in [SearchDocs -> StoredMetrics],
        sm \in {[d \in SearchDocs |-> [semantic |-> IF d = 3 THEN x.semantic ELSE 0, feedback_boost |-> IF d = 2 THEN x.feedback_boost ELSE 0]] : x \in Similarities},
        c \in Arrangements(SearchDocs)}

InitSearch ==
    /\ InitDb
    /\ cfg = DefaultCfg
    /\ crawler = NoCrawler
    /\ tasks = [t \in Tasks |-> IdleTask]
    /\ clock = 1
    /\ stop = FALSE
    /\ phase = "idle"
    /\ InitEffects
    /\ matcher = NoMatcher
    /\ documents = NoDocuments
    /\ search \in Searches
    /\ engine = NoEngine
    /\ throttle = NoThrottle
    /\ control = NoControl
    /\ relevance = NoRelevance

\* HybridSearcher(db).search(query, limit)
Search ==
    /\ search.pc = "call"
    /\ search' = [search EXCEPT !.pc = "done",
                                !.rows = HybridSearch(fts_search(search.fts, search.stored), search.provider,
                                                      search.sims, search.limit)]
    /\ UNCHANGED <<mainVars, matcher, documents, engine, throttle>>

NextSearch == Search

SpecSearch == InitSearch /\ [][NextSearch]_vars

-----------------------------------------------------------------------------
(* Claims about interactive search, checked under SpecSearch *)

\* C24: without an embedding provider the results are the candidates in their full-text
\* order, the i-th of N scored (N - i) / N, whatever relevance score, URL penalty and
\* review status are stored for them
C24_KeywordRankOnly ==
    (search.pc = "done" /\ ~search.provider) =>
        /\ Len(search.rows) = Min(search.limit, Len(search.fts))
        /\ \A i \in 1..Len(search.rows) :
                /\ search.rows[i].doc_id = search.fts[i]
                /\ search.rows[i].score * Len(search.fts) = 600 * (Len(search.fts) - (i - 1))

\* three candidates without a provider, the first marked irrelevant with a penalised
\* host and the last marked high_value with a stored relevance score: still in order
C24_Witness ==
    /\ search.pc = "done"
    /\ ~search.provider
    /\ search.fts = <<1, 2, 3>>
    /\ search.stored[1] = [relevance_score |-> 0, url_penalty |-> PenaltyCap, review_status |-> "irrelevant"]
    /\ search.stored[3] = [relevance_score |-> 1, url_penalty |-> 0, review_status |-> "high_value"]
    /\ search.rows = <<[doc_id |-> 1, score |-> 600], [doc_id |-> 2, score |-> 400], [doc_id |-> 3, score |-> 200]>>

-----------------------------------------------------------------------------
(* Adaptive per-host pacing: core/downloader.py _await_host_slot and            *)
(* _note_host_result, called by the tasks that download at the same time        *)

\* the monotonic clock is followed up to MaxNow milliseconds
MaxNow == 20000

\* the tasks begin MaxCalls requests between them
MaxCalls == 3

\* requests_per_second, in tenths: the settings dialog takes 0.1 to 30.0
RateSettings == {1, 20}

\* the statuses a server answers with
Statuses == {200, 302, 404, 429, 502, 503}

\* how far the clock moves between two steps of the tasks
Elapses == {2000, 10000}

\* base_rps = max(0.1, float(self._settings.requests_per_second)), in tenths
base_rps(t) == Max(1, t.requests_per_second)

\* the spacing of a rate that is not floored: 1 / (base_rps * penalty)
NominalSpacing(base, penalty) == 1000000 \div (base * penalty)

\* spacing = 1.0 / max(0.1, base_rps * max(0.2, min(1.0, st.penalty)))
Spacing(base, penalty) == 1000000 \div Max(100, base * Max(20, Min(100, penalty)))

\* a host that always allows a slot
SlotAlways(st, now) == TRUE

\* if now >= st.next_allowed_at
SlotFree(st, now) == now >= st.next_allowed_at

\* a penalty halved without a floor
HalvedNoFloor(penalty) == penalty \div 2

\* st.penalty = max(0.2, st.penalty * 0.5)
Halved(penalty) == Max(20, penalty \div 2)

\* st.penalty = min(1.0, st.penalty * 1.05)
Recovered(penalty) == Min(100, (penalty * 105) \div 100)

\* the cooldown of st.next_allowed_at = max(st.next_allowed_at, monotonic() + 2.0)
Cooldown == 2000

\* _note_host_result under the lock, for a host that is not empty
NotedState(st, http_status, now) ==
    IF http_status \in {429, 502, 503}
    THEN [st EXCEPT !.penalty = Halved(st.penalty), !.next_allowed_at = Max(st.next_allowed_at, now + Cooldown)]
    ELSE IF 200 <= http_status /\ http_status < 400
         THEN [st EXCEPT !.penalty = Recovered(st.penalty)]
         ELSE st

InitThrottle ==
    /\ InitDb
    /\ cfg = DefaultCfg
    /\ crawler = NoCrawler
    /\ tasks = [t \in Tasks |-> IdleTask]
    /\ clock = 1
    /\ stop = FALSE
    /\ phase = "running"
    /\ InitEffects
    /\ matcher = NoMatcher
    /\ documents = NoDocuments
    /\ search = NoSearch
    /\ engine = NoEngine
    /\ throttle \in {[NoThrottle EXCEPT !.requests_per_second = r] : r \in RateSettings}
    /\ control = NoControl
    /\ relevance = NoRelevance

\* download() of a URL with this host reaches _await_host_slot: a URL without a host
\* returns from it at once
SlotCall(w, host) ==
    /\ throttle.workers[w].pc = "idle"
    /\ throttle.calls < MaxCalls
    /\ pause
    /\ throttle' = [throttle EXCEPT !.calls = @ + 1,
                                    !.workers[w] = [IdleCaller EXCEPT !.pc = IF host = "" THEN "request" ELSE "wait",
                                                                      !.host = host]]
    /\ UNCHANGED <<mainVars, matcher, documents, search, engine>>

\* one turn of the loop of _await_host_slot: past the pause event; with stop set it
\* returns without a slot; under the lock it takes the slot if the host allows one now,
\* and else goes to sleep for min(0.5, next_allowed_at - now)
SlotTurn(w) ==
    LET me == throttle.workers[w]
        st == throttle.hosts[me.host]
        now == throttle.now
    IN  /\ me.pc = "wait"
        /\ pause
        /\ throttle' =
            IF stop
            THEN [throttle EXCEPT !.workers[w].pc = "request"]
            ELSE IF SlotFree(st, now)
                 THEN [throttle EXCEPT !.hosts[me.host].next_allowed_at = now + Spacing(base_rps(throttle), st.penalty),
                                       !.grant[me.host] = [at |-> now, penalty |-> st.penalty],
                                       !.workers[w].pc = "request", !.workers[w].granted = TRUE]
                 ELSE [throttle EXCEPT !.workers[w].pc = "sleep",
                                       !.workers[w].wake_at = now + Min(500, Max(0, st.next_allowed_at - now))]
        /\ UNCHANGED <<mainVars, matcher, documents, search, engine>>

\* asyncio.sleep is over
SlotWake(w) ==
    /\ throttle.workers[w].pc = "sleep"
    /\ throttle.now >= throttle.workers[w].wake_at
    /\ throttle' = [throttle EXCEPT !.workers[w].pc = "wait", !.workers[w].wake_at = 0]
    /\ UNCHANGED <<mainVars, matcher, documents, search, engine>>

\* the response arrives: _note_host_result(url, http_status=resp.status)
NoteHostResult(w, http_status) ==
    LET me == throttle.workers[w]
    IN  /\ me.pc = "request"
        /\ throttle' = [throttle EXCEPT
                !.hosts = IF me.host = "" THEN @
                          ELSE [@ EXCEPT ![me.host] = NotedState(@, http_status, throttle.now)],
                !.last = [http_status |-> http_status],
                !.workers[w] = IdleCaller]
        /\ UNCHANGED <<mainVars, matcher, documents, search, engine>>

\* time passes
Elapse(d) ==
    /\ throttle.now + d <= MaxNow
    /\ throttle' = [throttle EXCEPT !.now = @ + d]
    /\ UNCHANGED <<mainVars, matcher, documents, search, engine>>

NextThrottle ==
    \/ \E w \in ThrottleWorkers, host \in ThrottleHosts \cup {""} : SlotCall(w, host)
    \/ \E w \in ThrottleWorkers : SlotTurn(w)
    \/ \E w \in ThrottleWorkers : SlotWake(w)
    \/ \E w \in ThrottleWorkers, http_status \in Statuses : NoteHostResult(w, http_status)
    \/ \E d \in Elapses : Elapse(d)
    \/ Stop

SpecThrottle == InitThrottle /\ [][NextThrottle]_vars

-----------------------------------------------------------------------------
(* Claims about host pacing, checked under SpecThrottle *)

\* task w is granted a slot of host h in this step
SlotGranted(w, h) ==
    /\ throttle.workers[w].pc = "wait"
    /\ throttle.workers[w].host = h
    /\ throttle'.workers[w].granted

\* C27 as stated: two consecutive slot grants for one host are at least
\* 1 / (base rate * penalty) apart, the penalty being that of the earlier grant
C27_AsStated ==
    [][\A w \in ThrottleWorkers, h \in ThrottleHosts :
        (SlotGranted(w, h) /\ throttle.grant[h] # NoGrant) =>
            throttle'.grant[h].at - throttle.grant[h].at
                >= NominalSpacing(base_rps(throttle), throttle.grant[h].penalty)]_vars

\* C27: two consecutive slot grants for one host are at least
\* 1 / max(0.1, base rate * penalty) apart, the penalty being that of the earlier grant,
\* however the calls of the tasks interleave
C27_Serialized ==
    [][\A w \in ThrottleWorkers, h \in ThrottleHosts :
        (SlotGranted(w, h) /\ throttle.grant[h] # NoGrant) =>
            /\ throttle'.grant[h].at = throttle.now
            /\ throttle'.grant[h].at - throttle.grant[h].at
                >= Spacing(base_rps(throttle), throttle.grant[h].penalty)]_vars

\* two tasks asked for a slot of one host at the same time; one got it, the other slept
\* and got the next one, after a 429 had halved the penalty in between
C27_Witness ==
    /\ throttle.grant[Www] = [at |-> 10000, penalty |-> 50]
    /\ throttle.requests_per_second = 1
    /\ throttle.hosts[Www].next_allowed_at = 20000
    /\ \E w, v \in ThrottleWorkers :
            /\ throttle.workers[w].granted /\ throttle.workers[w].host = Www
            /\ throttle.workers[v].pc = "sleep" /\ throttle.workers[v].host = Www

\* task w notes the status of a response in this step
Noted(w) ==
    /\ throttle.workers[w].pc = "request"
    /\ throttle'.workers[w].pc = "idle"

\* C28: the penalty of every host stays within [0.2, 1.0]; a 429, 502 or 503 halves it,
\* never below 0.2, and moves the next-allowed time to at least the cooldown after now,
\* never earlier than it was; a 2xx or 3xx multiplies it by 1.05, never above 1.0; any
\* other status leaves the state of the host as it is
C28_PenaltyRange ==
    /\ [](\A h \in ThrottleHosts : 20 <= throttle.hosts[h].penalty /\ throttle.hosts[h].penalty <= 100)
    /\ [][\A w \in ThrottleWorkers, h \in ThrottleHosts :
            (Noted(w) /\ throttle.workers[w].host = h) =>
                LET st == throttle.hosts[h]
                    after == throttle'.hosts[h]
                    http_status == throttle'.last.http_status
                IN  /\ http_status \in {429, 502, 503} =>
                        /\ after.penalty = (IF st.penalty \div 2 < 20 THEN 20 ELSE st.penalty \div 2)
                        /\ after.next_allowed_at >= throttle.now + 2000
                        /\ after.next_allowed_at >= st.next_allowed_at
                    /\ http_status \in 200..399 =>
                        /\ after.penalty = (IF (st.penalty * 105) \div 100 > 100 THEN 100 ELSE (st.penalty * 105) \div 100)
                        /\ after.next_allowed_at = st.next_allowed_at
                    /\ http_status \notin {429, 502, 503} \cup (200..399) => after = st]_vars

\* three failures in a row have brought the penalty from 1.0 down to the floor, the last
\* of them a 503 that pushed the next-allowed time out
C28_Witness ==
    /\ throttle.hosts[Www].penalty = 20
    /\ throttle.last.http_status = 503
    /\ throttle.hosts[Www].next_allowed_at = throttle.now + Cooldown

\* a host at full speed answers 200: the penalty stays at the ceiling
C28_WitnessCeiling ==
    /\ throttle.hosts[Www].penalty = 100
    /\ throttle.last.http_status = 200
    /\ throttle.grant[Www] # NoGrant

-----------------------------------------------------------------------------
(* Claims about the semaphore of the worker, checked under Spec *)

\* C29: at most max_concurrency handlers are past the semaphore at any time; every
\* other task created is waiting for it and has written nothing
C29_SemaphoreBound ==
    /\ Cardinality(InsideSem) <= cfg.max_concurrency
    /\ \A t \in Active \ InsideSem : tasks[t].pc = "waiting" /\ tasks[t].writes = <<>>

\* the semaphore is full, one handler having marked its URL, while another task waits
C29_Witness ==
    /\ Cardinality(InsideSem) = cfg.max_concurrency
    /\ \E t \in InsideSem : tasks[t].writes # <<>>
    /\ \E t \in Active : tasks[t].pc = "waiting"

-----------------------------------------------------------------------------
(* SpecStop: the downloads of SpecDl, with stop requested while the body of a   *)
(* response is being received, and the same URL downloaded again by a later run *)

\* the part file deleted when the download is cancelled
RolledBack(d, part, kept, body, n) == Unlink(d, part)

\* the part file when stop is seen after n chunks: opened with "ab" and the chunks
\* written so far appended to what it held
Interrupted(d, part, kept, body, n) == WriteFile(d, part, kept \o SubSeq(body, 1, n))

\* stop is requested while _download_once receives the body: the loop over the chunks
\* breaks after n of them and asyncio.CancelledError("Stopped") is raised, which
\* `except Exception` of download() does not catch
DlStopped(resp, n) ==
    LET req == Request(disk, jar, dl.url, dl.title, dl.conditional)
        part == PartPath(BaseName(dl.url, dl.title))
        before == ExistingSize(disk, part)
        existing_size == IF before > 0 /\ resp.status = 200 THEN 0 ELSE before
        kept == IF existing_size > 0 THEN disk[part] ELSE <<>>
    IN  /\ dl.pc \in {"loop", "again"}
        /\ ~stop
        /\ pause
        /\ resp \in Responses(dl.url, req)
        /\ resp.status # 304
        /\ resp.status < 400
        /\ n \in 0..Len(resp.body)
        /\ stop' = TRUE
        /\ pause' = TRUE
        /\ disk' = Interrupted(disk, part, kept, resp.body, n)
        /\ dl' = [dl EXCEPT !.pc = "cancelled", !.last_exc = "CancelledError", !.sent = Append(@, req), !.resp = resp]
        /\ UNCHANGED <<urls, batch, lastOp, cfg, crawler, tasks, clock, phase, jar, kv, fb>>
        /\ UNCHANGED libVars

\* a later run, on a fresh stop event, downloads the URL again
DlResume(conditional) ==
    /\ dl.pc = "cancelled"
    /\ clock < MaxClock
    /\ clock' = clock + 1
    /\ stop' = FALSE
    /\ dl' = [IdleDl EXCEPT !.pc = "loop", !.url = dl.url, !.title = dl.title, !.conditional = conditional,
                            !.before = disk, !.after_stop = TRUE]
    /\ UNCHANGED <<urls, batch, lastOp, cfg, crawler, tasks, phase, pause, disk, jar, kv, fb>>
    /\ UNCHANGED libVars

NextStop ==
    \/ NextDl
    \/ \E resp \in UNION {Responses(u, [range |-> k, conditional |-> c, cookie |-> j]) :
                             u \in DlUrls, k \in 0..Len(PdfBytes), c \in BOOLEAN, j \in BOOLEAN},
          n \in 0..Len(PdfBytes) : DlStopped(resp, n)
    \/ \E conditional \in BOOLEAN : DlResume(conditional)

SpecStop == InitDl /\ [][NextStop]_vars

-----------------------------------------------------------------------------
(* Claims about stop during a download, checked under SpecStop *)

\* C30: when stop is requested during a download, the part file holds what it held
\* and the chunks received, no other file is made, changed or removed and nothing is
\* returned; the first request of a later download of the same URL asks for the range
\* that starts at the size of the part file left
C30_PartKept ==
    /\ [][(dl.pc # "cancelled" /\ dl'.pc = "cancelled") =>
            LET part == PartPath(BaseName(dl.url, dl.title))
                restart == Exists(disk, part) /\ dl'.resp.status = 200
                held == IF Exists(disk, part) /\ ~restart THEN disk[part] ELSE <<>>
            IN  /\ Exists(disk', part)
                /\ \E n \in 0..Len(dl'.resp.body) : disk'[part] = held \o SubSeq(dl'.resp.body, 1, n)
                /\ DOMAIN disk' \ {part} = DOMAIN disk \ {part}
                /\ \A q \in DOMAIN disk \ {part} : disk'[q] = disk[q]
                /\ dl'.result = IdleDl.result]_vars
    /\ [][(dl.pc = "cancelled" /\ dl'.pc = "loop") =>
            /\ disk' = disk
            /\ dl'.url = dl.url
            /\ dl'.after_stop]_vars
    /\ [][(dl.after_stop /\ dl.sent = <<>> /\ dl'.sent # <<>>) =>
            LET part == PartPath(BaseName(dl.url, dl.title))
            IN  /\ Exists(dl.before, part)
                /\ dl'.sent[1].range = Len(dl.before[part])]_vars

\* stop came after two chunks of a PDF; the later download has asked for the rest
C30_Witness ==
    /\ dl.after_stop
    /\ dl.url = UPrivate
    /\ dl.sent # <<>>
    /\ dl.sent[1].range = 2
    /\ dl.before[PartPath(BaseName(dl.url, dl.title))] = SubSeq(PdfBytes, 1, 2)

-----------------------------------------------------------------------------
(* Claims about the headers of a download request, checked under SpecDl *)

\* C31: no request carries Range together with If-None-Match or If-Modified-Since: with
\* a part file that is not empty the request has Range, starting at its size, and no
\* conditional header; conditional headers go only with a request for the full content
C31_RangeOrConditional ==
    [][Len(dl'.sent) = Len(dl.sent) + 1 =>
        LET req == dl'.sent[Len(dl'.sent)]
            existing_size == ExistingSize(disk, PartPath(BaseName(dl.url, dl.title)))
        IN  /\ existing_size > 0 => (req.range = existing_size /\ ~req.conditional)
            /\ req.conditional => (req.range = 0 /\ existing_size = 0)
            /\ ~(req.range > 0 /\ req.conditional)]_vars

\* the caller passed cache headers, a transfer broke and left a part file, and the retry
\* asked for the rest without the cache headers
C31_Witness ==
    /\ dl.conditional
    /\ Len(dl.sent) = 2
    /\ dl.sent[1].conditional /\ dl.sent[1].range = 0
    /\ dl.sent[2].range > 0 /\ ~dl.sent[2].conditional

-----------------------------------------------------------------------------
(* Claims about the start of a handler, checked under SpecPool *)

\* C32 as stated: the write of status processing at the start of handle() leaves etag,
\* last_modified, sha256 and local_path of the row as they were
C32_AsStated ==
    [][(lastOp'.op = "update_url_attempt" /\ lastOp'.status = "processing"
            /\ \E r \in urls : r.url = lastOp'.url) =>
        LET old == RowOf(urls, lastOp'.url)
            new == RowOf(urls', lastOp'.url)
        IN  /\ new.etag = old.etag
            /\ new.last_modified = old.last_modified
            /\ new.sha256 = old.sha256
            /\ new.local_path = old.local_path]_vars

-----------------------------------------------------------------------------
(* SpecDrain: one run over a site of pages only, every fetch of which succeeds, *)
(* nobody stopping or pausing it; every step that stays possible is taken       *)

\* a link back to the listing
HrefStart == Href("", "", <<"/", "epstein">>, <<>>, "")

\* the site: the listing links its pager and a page about it, the pager links itself,
\* as the pager of a listing does for the current page, and the page about it links
\* the listing
DrainHtml(u) ==
    IF u = UStart THEN <<HrefPager, HrefAbout>>
    ELSE IF u = UPager THEN <<HrefPager>>
    ELSE <<HrefStart>>

DrainCfgs ==
    {[DefaultCfg EXCEPT !.follow_discovered_pages = f, !.max_concurrency = c] :
        f \in BOOLEAN, c \in 1..MaxConcurrency}

InitDrain ==
    /\ InitDb
    /\ cfg \in DrainCfgs
    /\ crawler = NoCrawler
    /\ tasks = [t \in Tasks |-> IdleTask]
    /\ clock = MaxClock - 1
    /\ stop = FALSE
    /\ phase = "idle"
    /\ InitSide

NextDrain ==
    \/ RunClear
    \/ RunInitialize(<<UStart>>, "ok")
    \/ IterRefill
    \/ \E t \in Tasks : Dispatch(t)
    \/ \E t \in Tasks : TaskStart(t)
    \/ \E t \in Tasks : PageBegin(t)
    \/ \E t \in Tasks : PageFetchOk(t, DrainHtml(tasks[t].url))
    \/ \E t \in Tasks : PageEnqueueDocs(t)
    \/ \E t \in Tasks : PageEnqueuePages(t)
    \/ \E t \in Tasks : TaskReturn(t)

\* the event loop runs every coroutine that is ready
FairDrain ==
    /\ WF_vars(RunClear)
    /\ WF_vars(RunInitialize(<<UStart>>, "ok"))
    /\ WF_vars(IterRefill)
    /\ \A t \in Tasks :
        /\ WF_vars(Dispatch(t))
        /\ WF_vars(TaskStart(t))
        /\ WF_vars(PageBegin(t))
        /\ WF_vars(PageFetchOk(t, DrainHtml(tasks[t].url)))
        /\ WF_vars(PageEnqueueDocs(t))
        /\ WF_vars(PageEnqueuePages(t))
        /\ WF_vars(TaskReturn(t))

SpecDrain == InitDrain /\ [][NextDrain]_vars /\ FairDrain

-----------------------------------------------------------------------------
(* Claims about the end of a run, checked under SpecDrain *)

\* C33 as stated: in a run over pages whose fetches all succeed, the set of pending URLs
\* is eventually empty and stays so
C33_AsStated == <>[](phase = "running" /\ PendingRows(urls) = {})

-----------------------------------------------------------------------------
(* SpecControl: one run over pages, with pause(), resume() and stop() called    *)
(* from the control thread: each reads the events as they are at the call and   *)
(* schedules callbacks with call_soon_threadsafe, which the loop runs in order  *)

\* the control thread makes MaxControlCalls calls
MaxControlCalls == 2

ControlSeedLists == {<<UStart>>, <<UDataset3>>}

\* CrawlWorker.pause()
CallPause ==
    /\ phase = "running"
    /\ control.calls < MaxControlCalls
    /\ control' = IF stop
                  THEN [control EXCEPT !.calls = @ + 1, !.last = "pause"]
                  ELSE [control EXCEPT !.calls = @ + 1, !.last = "pause", !.desired_paused = TRUE,
                                       !.queue = IF pause THEN Append(@, "pause.clear") ELSE @]
    /\ UNCHANGED <<urls, batch, lastOp, cfg, crawler, tasks, clock, stop, phase, pause, disk, jar, dl, kv, fb>>
    /\ UNCHANGED <<matcher, documents, search, engine, throttle, relevance>>

\* CrawlWorker.resume()
CallResume ==
    /\ phase = "running"
    /\ control.calls < MaxControlCalls
    /\ control' = [control EXCEPT !.calls = @ + 1, !.last = "resume", !.desired_paused = FALSE,
                                 !.queue = IF ~stop /\ ~pause THEN Append(@, "pause.set") ELSE @]
    /\ UNCHANGED <<urls, batch, lastOp, cfg, crawler, tasks, clock, stop, phase, pause, disk, jar, dl, kv, fb>>
    /\ UNCHANGED <<matcher, documents, search, engine, throttle, relevance>>

\* CrawlWorker.stop()
CallStop ==
    /\ phase = "running"
    /\ control.calls < MaxControlCalls
    /\ control' = [control EXCEPT !.calls = @ + 1, !.stop_called = TRUE,
                                 !.queue = IF stop THEN @ ELSE @ \o <<"stop.set", "pause.set">>]
    /\ UNCHANGED <<urls, batch, lastOp, cfg, crawler, tasks, clock, stop, phase, pause, disk, jar, dl, kv, fb>>
    /\ UNCHANGED <<matcher, documents, search, engine, throttle, relevance>>

\* the loop runs the callback scheduled first
RunCallback ==
    /\ control.queue # <<>>
    /\ control' = [control EXCEPT !.queue = Tail(@)]
    /\ stop' = (stop \/ Head(control.queue) = "stop.set")
    /\ pause' = CASE Head(control.queue) = "pause.set" -> TRUE
                  [] Head(control.queue) = "pause.clear" -> FALSE
                  [] OTHER -> pause
    /\ UNCHANGED <<urls, batch, lastOp, cfg, crawler, tasks, clock, phase, disk, jar, dl, kv, fb>>
    /\ UNCHANGED <<matcher, documents, search, engine, throttle, relevance>>

NextControl ==
    \/ RunClear
    \/ \E seed_urls \in ControlSeedLists : RunInitialize(seed_urls, "ok")
    \/ IterRefill
    \/ \E t \in Tasks : Dispatch(t)
    \/ \E t \in Tasks : TaskStart(t)
    \/ \E t \in Tasks : PageBegin(t)
    \/ \E t \in Tasks : PageFetchOk(t, DrainHtml(tasks[t].url))
    \/ \E t \in Tasks : PageEnqueueDocs(t)
    \/ \E t \in Tasks : PageEnqueuePages(t)
    \/ \E t \in Tasks : PageStopped(t)
    \/ \E t \in Tasks : TaskReturn(t)
    \/ RunEnd
    \/ CallPause
    \/ CallResume
    \/ CallStop
    \/ RunCallback

\* the loop runs every callback and every coroutine that is ready; the control thread
\* calls when it likes
FairControl ==
    /\ WF_vars(RunClear)
    /\ WF_vars(\E seed_urls \in ControlSeedLists : RunInitialize(seed_urls, "ok"))
    /\ WF_vars(IterRefill)
    /\ WF_vars(RunEnd)
    /\ WF_vars(RunCallback)
    /\ \A t \in Tasks :
        /\ WF_vars(Dispatch(t))
        /\ WF_vars(TaskStart(t))
        /\ WF_vars(PageBegin(t))
        /\ WF_vars(PageFetchOk(t, DrainHtml(tasks[t].url)))
        /\ WF_vars(PageEnqueueDocs(t))
        /\ WF_vars(PageEnqueuePages(t))
        /\ WF_vars(PageStopped(t))
        /\ WF_vars(TaskReturn(t))

InitControl ==
    /\ InitDb
    /\ cfg = DefaultCfg
    /\ crawler = NoCrawler
    /\ tasks = [t \in Tasks |-> IdleTask]
    /\ clock = MaxClock - 1
    /\ stop = FALSE
    /\ phase = "idle"
    /\ InitSide

SpecControl == InitControl /\ [][NextControl]_vars /\ FairControl

-----------------------------------------------------------------------------
(* Claims about the end of a run and its controls, checked under SpecControl *)

\* nothing is pending and no handler is in flight
Quiescent ==
    /\ phase = "running"
    /\ PendingRows(urls) = {}
    /\ Active = {}
    /\ batch = <<>>

\* C34 as stated: once no URL is pending and no handler is in flight the run ends,
\* without stop() being called (nor pause(), which would hold the run)
C34_AsStated == Quiescent ~> (phase = "idle" \/ control.calls > 0)

\* C35 as stated: after stop() has been called on a running worker the run finishes,
\* also when pause() or resume() is called after it
C35_AsStated == control.stop_called ~> phase = "idle"

\* C36 as stated: when the callbacks scheduled have run, the pause gate is closed if
\* the last call was pause() and open if it was resume()
C36_AsStated ==
    (phase = "running" /\ ~control.stop_called /\ control.queue = <<>> /\ control.last # "none")
        => (pause <=> control.last = "resume")

-----------------------------------------------------------------------------
(* The status a completed handler leaves: runs whose seeds include a page that
   robots.txt disallows *)

\* a page under the path robots.txt disallows, given as a seed
UPrivatePage == [host |-> Www, path |-> <<"/", "private">>, query |-> <<>>]

ScopeSeedLists == {<<UStart>>, <<UPrivatePage>>, <<UStart, UPrivatePage>>}

NextScope ==
    \/ RunClear
    \/ \E seed_urls \in ScopeSeedLists : RunInitialize(seed_urls, "ok")
    \/ IterRefill
    \/ \E t \in Tasks : Dispatch(t)
    \/ \E t \in Tasks : TaskStart(t)
    \/ \E t \in Tasks : PageBegin(t)
    \/ \E t \in Tasks : PageFetchOk(t, WorkerHtml(tasks[t].url))
    \/ \E t \in Tasks, err \in {"HTTP 500"} : PageFetchFail(t, err)
    \/ \E t \in Tasks : PageEnqueueDocs(t)
    \/ \E t \in Tasks : PageEnqueuePages(t)
    \/ \E t \in Tasks : PageStopped(t)
    \/ \E t \in Tasks : DocReadHeaders(t)
    \/ \E t \in Tasks : DocDownloadOk(t)
    \/ \E t \in Tasks, err \in DownloadErrors : DocDownloadFail(t, err)
    \/ \E t \in Tasks : DocStopped(t)
    \/ \E t \in Tasks : TaskReturn(t)
    \/ Stop
    \/ RunEnd

SpecScope == Init /\ [][NextScope]_vars

\* C37 as stated: when a handler completes and stop has not been requested, the row of
\* its URL has status done, retry or error, never processing
C37_AsStated ==
    [][\A t \in Tasks :
          (tasks[t].pc # "returned" /\ tasks'[t].pc = "returned" /\ ~stop)
              => RowOf(urls', tasks[t].url).status \in {"done", "retry", "error"}]_vars

-----------------------------------------------------------------------------
(* SpecParts: handlers of different document URLs download at the same time into one
   output_dir; a transfer is written chunk by chunk, the loop awaiting between chunks.
   An open file stays with its inode: it follows a rename and loses its path when the
   path is unlinked or replaced *)

PartUrls == {UWord, UWordCopy, UMemo}

\* the URLs iter_discovered hands out, in their order; a URL comes again after a retry
PartBatches == {<<UWord, UWordCopy, UMemo>>, <<UMemo, UWordCopy, UWord>>, <<UWord, UWordCopy, UWord>>}

PartsCfgs == {[DefaultCfg EXCEPT !.max_concurrency = MaxConcurrency, !.storage_layout = l] : l \in {"flat", "hashed"}}

InitParts ==
    /\ urls = {}
    /\ batch \in PartBatches
    /\ lastOp = NoOp
    /\ cfg \in PartsCfgs
    /\ crawler = NoCrawler
    /\ tasks = [t \in Tasks |-> IdleTask]
    /\ clock = 1
    /\ stop = FALSE
    /\ phase = "running"
    /\ InitSide

\* the files the other tasks hold open, after task t has moved src to dst (os.replace),
\* or unlinked src (dst = Closed)
Moved(t, src, dst) ==
    [o \in Tasks |->
        IF o = t THEN tasks[o]
        ELSE IF tasks[o].file = src THEN [tasks[o] EXCEPT !.file = dst]
        ELSE IF dst # Closed /\ tasks[o].file = dst THEN [tasks[o] EXCEPT !.file = Closed]
        ELSE tasks[o]]

\* handle(u) for the next URL handed out, inside the semaphore, calls download(u) without
\* a title: _download_once reads the size of the .part, sends the request, and on 200 or
\* 206 opens the .part for appending, after unlinking it when a Range request was
\* answered 200
TransferOpen(t, resp) ==
    LET u == Head(batch)
        part == PartPath(BaseName(u, <<>>))
        existing == ExistingSize(disk, part)
        restart == existing > 0 /\ resp.status = 200
        kept == IF existing > 0 /\ ~restart THEN disk[part] ELSE <<>>
        d1 == IF restart THEN Unlink(disk, part) ELSE disk
        others == IF restart THEN Moved(t, part, Closed) ELSE tasks
    IN  /\ tasks[t].pc = "idle"
        /\ batch # <<>>
        /\ \A o \in Tasks : tasks[o].url # u
        /\ SemaphoreFree
        /\ batch' = Tail(batch)
        /\ resp \in {r \in Responses(u, Request(disk, jar, u, <<>>, FALSE)) : ~r.broken /\ r.status # 503}
        /\ IF resp.status >= 400
           THEN /\ tasks' = [tasks EXCEPT ![t].pc = "returned", ![t].url = u, ![t].error = "HTTP error",
                                          ![t].writes = <<"processing", "retry">>]
                /\ disk' = disk
           ELSE /\ tasks' = [others EXCEPT ![t].pc = "transfer", ![t].url = u, ![t].file = part,
                                           ![t].body = resp.body, ![t].digest = kept,
                                           ![t].writes = <<"processing">>]
                /\ disk' = IF Exists(d1, part) THEN d1 ELSE WriteFile(d1, part, <<>>)
        /\ lastOp' = NoOp
        /\ UNCHANGED <<urls, cfg, crawler, clock, stop, phase, pause, jar, dl, kv, fb>>
        /\ UNCHANGED libVars

\* one turn of `async for chunk in resp.content.iter_chunked(...)`: f.write(chunk) and
\* digest.update(chunk)
TransferChunk(t) ==
    LET me == tasks[t]
        chunk == Head(me.body)
    IN  /\ me.pc = "transfer"
        /\ me.body # <<>>
        /\ pause
        /\ disk' = IF me.file = Closed THEN disk ELSE WriteFile(disk, me.file, Append(disk[me.file], chunk))
        /\ tasks' = [tasks EXCEPT ![t].body = Tail(@), ![t].digest = Append(@, chunk)]
        /\ lastOp' = NoOp
        /\ UNCHANGED <<urls, batch, cfg, crawler, clock, stop, phase, pause, jar, dl, kv, fb>>
        /\ UNCHANGED libVars

\* the connection breaks before the last chunk: the exception closes the file and
\* reaches handle(), max_retries being 0
TransferBreak(t) ==
    /\ tasks[t].pc = "transfer"
    /\ tasks[t].body # <<>>
    /\ tasks' = [tasks EXCEPT ![t].pc = "returned", ![t].file = Closed, ![t].error = "ClientPayloadError",
                              ![t].writes = Append(@, "retry")]
    /\ lastOp' = NoOp
    /\ UNCHANGED <<urls, batch, cfg, crawler, clock, stop, phase, pause, disk, jar, dl, kv, fb>>
    /\ UNCHANGED libVars

\* the body has ended: the file is closed and the .part stored under its final path;
\* os.replace of a .part that is no longer there raises FileNotFoundError
TransferEnd(t) ==
    LET me == tasks[t]
        base == BaseName(me.url, <<>>)
        part == PartPath(base)
        sha == Sha256(me.digest)
        resp == Response(200, ResourceType(me.url), me.digest, FALSE)
        st == Store(disk, jar, cfg, me.url, base, resp, sha)
        name == IF Suffix(base) = "" /\ resp.content_type = "application/pdf" THEN WithSuffix(base, ".pdf") ELSE base
        present == cfg.storage_layout = "hashed" /\ Exists(disk, HashedPath(sha, Suffix(name)))
    IN  /\ me.pc = "transfer"
        /\ me.body = <<>>
        /\ IF ~Exists(disk, part)
           THEN /\ tasks' = IF present
                            THEN [tasks EXCEPT ![t].pc = "returned", ![t].file = Closed, ![t].writes = Append(@, "done")]
                            ELSE [tasks EXCEPT ![t].pc = "returned", ![t].file = Closed,
                                               ![t].error = "FileNotFoundError", ![t].writes = Append(@, "retry")]
                /\ disk' = disk
           ELSE /\ tasks' = [Moved(t, part, IF present THEN Closed ELSE st.result.local_path)
                                EXCEPT ![t].pc = "returned", ![t].file = Closed, ![t].writes = Append(@, "done")]
                /\ disk' = st.disk
        /\ lastOp' = NoOp
        /\ UNCHANGED <<urls, batch, cfg, crawler, clock, stop, phase, pause, jar, dl, kv, fb>>
        /\ UNCHANGED libVars

NextParts ==
    \/ \E t \in Tasks :
          \E resp \in UNION {Responses(u, [range |-> k, conditional |-> FALSE, cookie |-> FALSE]) :
                                 u \in PartUrls, k \in 0..(Len(DocBytes) + Len(CopyBytes))} : TransferOpen(t, resp)
    \/ \E t \in Tasks : TransferChunk(t)
    \/ \E t \in Tasks : TransferBreak(t)
    \/ \E t \in Tasks : TransferEnd(t)
    \/ \E t \in Tasks : TaskReturn(t)

SpecParts == InitParts /\ [][NextParts]_vars

\* the downloads in flight
InFlight == {t \in Tasks : tasks[t].pc = "transfer"}

\* C38 as stated: two downloads in flight, of different URLs, use different .part
\* paths, and a download that returns has hashed the bytes of its own URL only
C38_AsStated ==
    /\ \A t1, t2 \in InFlight :
          tasks[t1].url # tasks[t2].url
              => PartPath(BaseName(tasks[t1].url, <<>>)) # PartPath(BaseName(tasks[t2].url, <<>>))
    /\ \A t \in Tasks :
          (tasks[t].pc = "returned" /\ tasks[t].error = NULL) => tasks[t].digest = Resource(tasks[t].url)

-----------------------------------------------------------------------------
(* Re-discovery of a document that is being downloaded, checked under SpecPool *)

\* C39 as stated: upsert_urls with preserve_done=true leaves a row in status
\* processing as it is
C39_AsStated ==
    [][(lastOp'.op = "upsert_urls" /\ lastOp'.preserve_done)
          => \A r \in urls : r.status = "processing" => r \in urls']_vars

-----------------------------------------------------------------------------
(* SpecRelevance: compute_relevance called on cosine similarities, a URL penalty and
   an entity density, all in hundredths; the score is in units of 1/1600, in which
   0.75 * topic + 0.25 * boost - penalty and its product with 0.75 are integers *)

\* cosine_similarity of the document with the topic vector and with a feedback
\* centroid: between -1 and 1, and 0.0 when there is no centroid
Cosines == {-100, -50, 0, 50, 100}

\* the penalty of the document's host, which apply_feedback keeps between 0 and 0.60
UrlPenalties == {0, PenaltyStep, 30, PenaltyCap}

\* entity mentions per word
Densities == {0, 2, 10}

\* rel = 0.75 * topic_sim + 0.25 * (hv_sim - ir_sim); rel -= url_penalty; rel *= 0.75
\* when entity_density <= 0.0
compute_relevance(topic_sim, hv_sim, ir_sim, url_penalty, entity_density) ==
    LET feedback_boost == hv_sim - ir_sim
        rel == 3 * topic_sim + feedback_boost - 4 * url_penalty
    IN  [called |-> TRUE, topic_similarity |-> topic_sim, hv_sim |-> hv_sim, ir_sim |-> ir_sim,
         url_penalty |-> url_penalty, entity_density |-> entity_density,
         relevance_score |-> IF entity_density <= 0 THEN 3 * rel ELSE 4 * rel]

InitRelevance ==
    /\ InitDb
    /\ cfg = DefaultCfg
    /\ crawler = NoCrawler
    /\ tasks = [t \in Tasks |-> IdleTask]
    /\ clock = 1
    /\ stop = FALSE
    /\ phase = "idle"
    /\ InitSide

ComputeRelevance(topic_sim, hv_sim, ir_sim, url_penalty, entity_density) ==
    /\ relevance' = compute_relevance(topic_sim, hv_sim, ir_sim, url_penalty, entity_density)
    /\ UNCHANGED <<urls, batch, lastOp, cfg, crawler, tasks, clock, stop, phase, pause, disk, jar, dl, kv, fb>>
    /\ UNCHANGED <<matcher, documents, search, engine, throttle, control>>

NextRelevance ==
    \E topic_sim \in Cosines, hv_sim \in Cosines, ir_sim \in Cosines, url_penalty \in UrlPenalties,
       entity_density \in Densities :
        ComputeRelevance(topic_sim, hv_sim, ir_sim, url_penalty, entity_density)

SpecRelevance == InitRelevance /\ [][NextRelevance]_vars

\* C40 as stated: with entity density zero the score is at most the score the same
\* topic similarity, feedback similarities and URL penalty get with a positive density
C40_AsStated ==
    (relevance.called /\ relevance.entity_density = 0) =>
        \A entity_density \in Densities \ {0} :
            relevance.relevance_score <=
                compute_relevance(relevance.topic_similarity, relevance.hv_sim, relevance.ir_sim,
                                  relevance.url_penalty, entity_density).relevance_score

====
